---- MODULE Spec2Model ----
\* Verification model of trellis (store/store.go, store/ttl.go,
\* internal/shard/shard.go, stream/cascade.go): the entity store's
\* transactional protocols over DynamoDB, the shard fan-out probe and the
\* cascade-delete stream handler.
EXTENDS Integers, Sequences, FiniteSets, TLC

VARIABLES
  now,      \* wall clock in Unix seconds (time.Now().Unix())
  items,    \* entity tables: set of stored items, keyed by (table, id)
  rels,     \* relationship table: set of edges, keyed by (pk, child_ref)
  uniq,     \* unique-constraint table: set of records, keyed by (pk, sk)
  calls,    \* per caller: the store call in flight and its position
  ret,      \* the error value returned by the step just taken, if any
  stream,   \* change events of the entity tables that set a TTL
  acked,    \* events the handler has acknowledged (returned nil for)
  hnd,      \* the cascade handler invocation in flight
  hac,      \* one multi-shard HasActiveChildren call: tasks, channels, join
  qac,      \* one multi-shard QueryAllChildren call: tasks, list, channel
  rd        \* the last read (Get or Query) and what it returned

vars == <<now, items, rels, uniq, calls, ret, stream, acked, hnd, hac, qac, rd>>

--------------------------------------------------------------------------
\* Bounds of the model

MaxTime == 2
MaxVersion == 2
MaxFailures == 1
HacShards == 2

Callers == {"c1", "c2"}

\* A missing "ttl" attribute; clock values start at 1.
NoTTL == 0
NoRec == [absent |-> TRUE]

--------------------------------------------------------------------------
\* Entity definitions supplied by the caller (e2e test entities:
\* Organization is a root, Studio a child of Organization with unique
\* fields, Title a child of Studio).

TableName(e) ==
  CASE e.type = "organization" -> "organizations"
    [] e.type = "studio" -> "studios"
    [] e.type = "label" -> "labels"
    [] OTHER -> "titles"

EntityType(e) == e.type

EntityRef(e) == e.type \o "#" \o e.id

GetKey(e) == e.id

IsParentChecker(e) == e.type \in {"studio", "title"}

ParentRef(e) ==
  CASE e.type = "studio" -> "organization#" \o e.parent
    [] e.type = "title" -> "studio#" \o e.parent
    [] OTHER -> ""

\* ParentCheck: table and key of the parent, default condition expression.
ParentCheck(e) ==
  [TableName |-> IF e.type = "studio" THEN "organizations" ELSE "studios",
   Key |-> e.parent,
   ConditionExpr |-> ""]

IsUniqueFielder(e) == e.type \in {"studio", "label"}

\* UniqueFields: field name -> current value.
UniqueFields(e) == [f \in {"slug"} |-> e.payload[f]]

--------------------------------------------------------------------------
\* internal/shard

\* fmt.Sprintf("%02x", n) for the shard numbers the model uses.
Hex2(n) ==
  LET d == <<"0", "1", "2", "3", "4", "5", "6", "7",
             "8", "9", "a", "b", "c", "d", "e", "f">>
  IN d[((n \div 16) % 16) + 1] \o d[(n % 16) + 1]

\* The store is built with DefaultConfig: one shard.
NumShards == 1

\* []byte(ref) of the references the model uses.
Bytes(ref) ==
  CASE ref = "studio#1" -> <<115, 116, 117, 100, 105, 111, 35, 49>>
    [] ref = "studio#2" -> <<115, 116, 117, 100, 105, 111, 35, 50>>
    [] ref = "title#1" -> <<116, 105, 116, 108, 101, 35, 49>>
    [] OTHER -> <<>>

\* Bitwise exclusive or of two bytes.
RECURSIVE XorBits(_, _, _)
XorBits(a, b, n) ==
  IF n = 0 THEN 0
  ELSE ((a + b) % 2) + 2 * XorBits(a \div 2, b \div 2, n - 1)

\* hash/fnv New32a: a 32-bit value is kept as its two 16-bit halves.
\* Write: for each byte, hash = (hash XOR byte) * 16777619 mod 2^32.
FnvOffset32 == [hi |-> 33052, lo |-> 40389]

FnvStep(h, byte) ==
  LET lo == (h.lo \div 256) * 256 + XorBits(h.lo % 256, byte, 8)
  IN [lo |-> (lo * 403) % 65536,
      hi |-> (h.hi * 403 + ((lo * 403) \div 65536) + (lo % 256) * 256) % 65536]

RECURSIVE FnvWrite(_, _)
FnvWrite(h, bytes) ==
  IF bytes = <<>> THEN h ELSE FnvWrite(FnvStep(h, Head(bytes)), Tail(bytes))

\* A shard number that is not reduced by the shard count.
Sum32Mod_Byte(h, n) == h.lo % 256

Sum32Mod(h, n) == ((h.hi % n) * (65536 % n) + (h.lo % n)) % n

\* A RelationshipPK that takes the single-shard branch for 0 and 1 only.
RelationshipPK_ZeroOrOne(parentRef, childRef, numShards) ==
  IF numShards \in {0, 1} THEN parentRef \o "#00"
  ELSE parentRef \o "#" \o
       Hex2(Sum32Mod(FnvWrite(FnvOffset32, Bytes(childRef)),
                     IF numShards < 0 THEN -numShards ELSE numShards))

RelationshipPK(parentRef, childRef, numShards) ==
  IF numShards <= 1 THEN parentRef \o "#00"
  ELSE parentRef \o "#" \o
       Hex2(Sum32Mod(FnvWrite(FnvOffset32, Bytes(childRef)), numShards))

\* The SHA-256 digest is taken of the joined string; the model keeps the
\* joined string itself as the key (distinct inputs of the digest are
\* distinct keys).
UniqueConstraintPK(parentRef, entityType, field, value) ==
  parentRef \o "#" \o entityType \o "#" \o field \o "#" \o value

relationshipPK(parentRef, childRef) ==
  RelationshipPK(parentRef, childRef, NumShards)

--------------------------------------------------------------------------
\* store/ttl.go

\* IsDeleted: the item has a ttl attribute whose value is <= time.Now().
IsDeleted(item, t) == item.ttl # NoTTL /\ item.ttl <= t

\* TTLFilterExpr: "attribute_not_exists(#ttl) OR #ttl > :now"
TTLFilterExpr(rec, t) == rec.ttl = NoTTL \/ rec.ttl > t

\* ParentExistsCondition:
\* "attribute_exists(id) AND (attribute_not_exists(#ttl) OR #ttl > :now)"
ParentExistsCondition(rec, t) ==
  rec # NoRec /\ (rec.ttl = NoTTL \/ rec.ttl > t)

--------------------------------------------------------------------------
\* The backing store: tables, condition expressions, TransactWriteItems

DB == [items |-> items, rels |-> rels, uniq |-> uniq]

KeyOf(kind, r) ==
  CASE kind = "entity" -> <<r.table, r.id>>
    [] kind = "rel" -> <<r.pk, r.child_ref>>
    [] OTHER -> <<r.pk, r.sk>>

Table(db, kind) ==
  CASE kind = "entity" -> db.items
    [] kind = "rel" -> db.rels
    [] OTHER -> db.uniq

WithTable(db, kind, S) ==
  CASE kind = "entity" -> [db EXCEPT !.items = S]
    [] kind = "rel" -> [db EXCEPT !.rels = S]
    [] OTHER -> [db EXCEPT !.uniq = S]

Lookup(db, kind, key) ==
  LET S == {r \in Table(db, kind) : KeyOf(kind, r) = key}
  IN IF S = {} THEN NoRec ELSE CHOOSE r \in S : TRUE

VersionMatches_Any(rec, expected) == TRUE

\* "#version = :expected_version"
VersionMatches(rec, expected) == rec.version = expected

\* The condition expressions the store uses, evaluated on the record
\* stored under the addressed key (NoRec when there is none).
EvalCond(cond, rec) ==
  CASE cond.expr = "none" -> TRUE
    [] cond.expr = "attribute_not_exists(key)" -> rec = NoRec
    [] cond.expr = "attribute_not_exists(#ttl)" ->
         rec = NoRec \/ rec.ttl = NoTTL
    [] cond.expr = "#version = :expected_version AND attribute_not_exists(#ttl)" ->
         rec # NoRec /\ VersionMatches(rec, cond.expected) /\ rec.ttl = NoTTL
    [] cond.expr = "ParentExistsCondition" ->
         ParentExistsCondition(rec, cond.now)
    [] OTHER -> FALSE

NoCond == [expr |-> "none"]

\* The write of one transaction item (conditions already checked).
ApplyWrite(db, it) ==
  LET S == Table(db, it.kind)
      old == Lookup(db, it.kind, it.key)
      rest == {r \in S : KeyOf(it.kind, r) # it.key}
  IN CASE it.op = "ConditionCheck" -> db
       [] it.op = "Put" -> WithTable(db, it.kind, rest \cup {it.item})
       [] it.op = "Delete" -> WithTable(db, it.kind, rest)
       [] OTHER ->  \* "Update" of an entity item (guarded by its version)
            WithTable(db, it.kind, rest \cup
              {[old EXCEPT !.payload = it.payload,
                           !.updated_at = it.updated_at,
                           !.version = old.version + 1,
                           !.unique_pks = it.unique_pks]})

RECURSIVE ApplyAll(_, _)
ApplyAll(db, txitems) ==
  IF txitems = <<>> THEN db
  ELSE ApplyAll(ApplyWrite(db, Head(txitems)), Tail(txitems))

\* TransactWriteItems: every condition is evaluated on the state before the
\* transaction; if one fails the transaction is cancelled with one reason
\* per item and nothing is written, otherwise all writes are applied.
TransactWriteItems(db, txitems) ==
  LET reasons == [i \in 1..Len(txitems) |->
                    IF EvalCond(txitems[i].cond,
                                Lookup(db, txitems[i].kind, txitems[i].key))
                    THEN "None" ELSE "ConditionalCheckFailed"]
  IN IF \E i \in 1..Len(txitems) : reasons[i] # "None"
     THEN [err |-> "TransactionCanceled", reasons |-> reasons, db |-> db]
     ELSE [err |-> "nil", reasons |-> <<>>, db |-> ApplyAll(db, txitems)]

--------------------------------------------------------------------------
\* Single-item writes of the backing store

TTLCondition_None == [expr |-> "none"]

\* The ConditionExpression of every TTL write.
TTLCondition == [expr |-> "attribute_not_exists(#ttl)"]

\* UpdateItem "SET #ttl = :ttl, #version = #version + :one" under
\* "attribute_not_exists(#ttl)" on an entity item. On a key that holds no
\* item the condition passes and the SET fails on the missing version
\* attribute (a validation error, nothing is written).
UpdateItemSetTTLVersion(db, table, key, ttl) ==
  LET old == Lookup(db, "entity", <<table, key>>)
      new == [old EXCEPT !.ttl = ttl, !.version = old.version + 1]
  IN IF ~EvalCond(TTLCondition, old)
     THEN [err |-> "ConditionalCheckFailed", db |-> db, events |-> {}]
     ELSE IF old = NoRec
     THEN [err |-> "ValidationException", db |-> db, events |-> {}]
     ELSE [err |-> "nil",
           db |-> [db EXCEPT !.items = (db.items \ {old}) \cup {new}],
           events |-> {[EventName |-> "MODIFY", OldImage |-> old,
                        NewImage |-> new]}]

\* UpdateItem "SET #ttl = :ttl" under "attribute_not_exists(#ttl)" on a
\* relationship or constraint record. UpdateItem creates the item when the
\* key holds none: the new item has the key attributes and ttl only.
UpdateItemSetTTL(db, kind, key, ttl) ==
  LET old == Lookup(db, kind, key)
      S == Table(db, kind)
      blank == IF kind = "rel"
               THEN [pk |-> key[1], child_ref |-> key[2], parent_ref |-> "",
                     child_table |-> "", child_key |-> "", ttl |-> ttl]
               ELSE [pk |-> key[1], sk |-> key[2], parent_ref |-> "",
                     entity_type |-> "", field_name |-> "",
                     field_value |-> "", entity_ref |-> "", ttl |-> ttl]
  IN IF ~EvalCond(TTLCondition, old)
     THEN [err |-> "ConditionalCheckFailed", db |-> db]
     ELSE IF old = NoRec
     THEN [err |-> "nil", db |-> WithTable(db, kind, S \cup {blank})]
     ELSE [err |-> "nil",
           db |-> WithTable(db, kind,
                            (S \ {old}) \cup {[old EXCEPT !.ttl = ttl]})]

--------------------------------------------------------------------------
\* store/store.go: Create

RECURSIVE SetToSeq(_)
SetToSeq(S) ==
  IF S = {} THEN <<>>
  ELSE LET x == CHOOSE y \in S : TRUE IN <<x>> \o SetToSeq(S \ {x})

\* Index (0-based, as in the Go code) of the first reason whose code is
\* ConditionalCheckFailed, or -1.
FirstFailed(reasons) ==
  IF \E i \in 1..Len(reasons) : reasons[i] = "ConditionalCheckFailed"
  THEN (CHOOSE i \in 1..Len(reasons) :
          /\ reasons[i] = "ConditionalCheckFailed"
          /\ \A j \in 1..(i - 1) : reasons[j] # "ConditionalCheckFailed") - 1
  ELSE -1

\* A mapping that looks for the entity put before the parent check.
mapCreateTransactionError_EntityFirst(r, parentCheckIndex, entityPutIndex) ==
  IF r.err = "nil" THEN "nil"
  ELSE IF r.err = "TransactionCanceled" /\ FirstFailed(r.reasons) >= 0
  THEN IF r.reasons[entityPutIndex + 1] = "ConditionalCheckFailed"
       THEN "ErrAlreadyExists"
       ELSE IF FirstFailed(r.reasons) = parentCheckIndex
       THEN "ErrParentNotFound"
       ELSE "ErrDuplicateValue"
  ELSE r.err

mapCreateTransactionError(r, parentCheckIndex, entityPutIndex) ==
  IF r.err = "nil" THEN "nil"
  ELSE IF r.err = "TransactionCanceled" /\ FirstFailed(r.reasons) >= 0
  THEN IF FirstFailed(r.reasons) = parentCheckIndex THEN "ErrParentNotFound"
       ELSE IF FirstFailed(r.reasons) = entityPutIndex THEN "ErrAlreadyExists"
       ELSE "ErrDuplicateValue"
  ELSE r.err

\* A mapping that reports every cancelled transaction as a duplicate.
mapUpdateTransactionError_AnyCancel(r) ==
  IF r.err = "nil" THEN "nil"
  ELSE IF r.err = "TransactionCanceled" THEN "ErrDuplicateValue"
  ELSE r.err

mapUpdateTransactionError(r) ==
  IF r.err = "nil" THEN "nil"
  ELSE IF r.err = "TransactionCanceled" /\ FirstFailed(r.reasons) >= 0
  THEN "ErrDuplicateValue"
  ELSE r.err

\* The condition of a constraint put: "attribute_not_exists(pk)".
ConstraintCondition == [expr |-> "attribute_not_exists(key)"]

\* The put of one constraint record (Create and Update build the same item).
ConstraintPut(e, parentRef, field, value) ==
  LET constraintPK == UniqueConstraintPK(parentRef, EntityType(e), field, value)
  IN [op |-> "Put", kind |-> "uniq", key |-> <<constraintPK, "CONSTRAINT">>,
      item |-> [pk |-> constraintPK, sk |-> "CONSTRAINT",
                parent_ref |-> parentRef, entity_type |-> EntityType(e),
                field_name |-> field, field_value |-> value,
                entity_ref |-> EntityRef(e), ttl |-> NoTTL],
      cond |-> ConstraintCondition]

\* The transaction items of Create in the order the code appends them:
\* parent check, constraint puts, entity put, relationship put.
CreateItems(e, nowUnix) ==
  LET parentItems ==
        IF IsParentChecker(e)
        THEN << [op |-> "ConditionCheck", kind |-> "entity",
                 key |-> <<ParentCheck(e).TableName, ParentCheck(e).Key>>,
                 cond |-> [expr |-> "ParentExistsCondition", now |-> nowUnix]] >>
        ELSE <<>>
      parentRef == IF IsParentChecker(e) THEN ParentRef(e) ELSE ""
      fields == IF IsUniqueFielder(e) /\ parentRef # ""
                THEN SetToSeq(DOMAIN UniqueFields(e)) ELSE <<>>
      uniquePuts == [i \in 1..Len(fields) |->
                       ConstraintPut(e, parentRef, fields[i],
                                     UniqueFields(e)[fields[i]])]
      uniquePKs == {uniquePuts[i].item.pk : i \in 1..Len(fields)}
      item == [table |-> TableName(e), id |-> GetKey(e),
               entity_ref |-> EntityRef(e), version |-> 1,
               created_at |-> nowUnix, updated_at |-> nowUnix,
               parent_ref |-> parentRef, unique_pks |-> uniquePKs,
               ttl |-> NoTTL, payload |-> e.payload]
      entityPut == << [op |-> "Put", kind |-> "entity",
                       key |-> <<TableName(e), GetKey(e)>>, item |-> item,
                       cond |-> [expr |-> "attribute_not_exists(key)"]] >>
      shardPK == relationshipPK(parentRef, EntityRef(e))
      relPut == IF parentRef # ""
                THEN << [op |-> "Put", kind |-> "rel",
                         key |-> <<shardPK, EntityRef(e)>>,
                         item |-> [pk |-> shardPK, child_ref |-> EntityRef(e),
                                   parent_ref |-> parentRef,
                                   child_table |-> TableName(e),
                                   child_key |-> GetKey(e), ttl |-> NoTTL],
                         cond |-> NoCond] >>
                ELSE <<>>
  IN [items |-> parentItems \o uniquePuts \o entityPut \o relPut,
      parentCheckIndex |-> IF parentItems = <<>> THEN -1 ELSE 0,
      entityPutIndex |-> Len(parentItems) + Len(uniquePuts)]

\* A Create that puts the entity item outside the transaction.
Create_EntityPutApart(db, e, nowUnix, fail) ==
  LET c == CreateItems(e, nowUnix)
      r == IF fail THEN [err |-> "error", reasons |-> <<>>, db |-> db]
           ELSE TransactWriteItems(db, c.items)
  IN [err |-> mapCreateTransactionError(r, c.parentCheckIndex, c.entityPutIndex),
      db |-> IF r.err = "nil" THEN r.db
             ELSE ApplyWrite(db, c.items[c.entityPutIndex + 1])]

\* Create from the transaction on: nowUnix was captured when the call began.
\* fail: the backing store rejects the request with an unclassified error.
Create(db, e, nowUnix, fail) ==
  LET c == CreateItems(e, nowUnix)
      r == IF fail THEN [err |-> "error", reasons |-> <<>>, db |-> db]
           ELSE TransactWriteItems(db, c.items)
  IN [err |-> mapCreateTransactionError(r, c.parentCheckIndex, c.entityPutIndex),
      db |-> r.db]

--------------------------------------------------------------------------
\* store/store.go: Get, Update

Get(db, table, key, t) ==
  LET it == Lookup(db, "entity", <<table, key>>)
  IN IF it = NoRec THEN [err |-> "ErrNotFound", item |-> NoRec]
     ELSE IF IsDeleted(it, t) THEN [err |-> "ErrNotFound", item |-> NoRec]
     ELSE [err |-> "nil", item |-> it]

VersionGuard(expectedVersion) ==
  [expr |-> "#version = :expected_version AND attribute_not_exists(#ttl)",
   expected |-> expectedVersion]

\* updateSimple: one conditional UpdateItem that sets the supplied
\* attributes, updated_at and version + 1 and keeps _unique_pks.
updateSimple(db, e, expectedVersion, t, fail) ==
  LET old == Lookup(db, "entity", <<TableName(e), GetKey(e)>>)
      upd == [op |-> "Update", kind |-> "entity",
              key |-> <<TableName(e), GetKey(e)>>,
              payload |-> e.payload, updated_at |-> t,
              unique_pks |-> IF old = NoRec THEN {} ELSE old.unique_pks,
              cond |-> VersionGuard(expectedVersion)]
  IN IF fail THEN [err |-> "error", db |-> db]
     ELSE IF ~EvalCond(upd.cond, old)
     THEN [err |-> "ErrConcurrentModification", db |-> db]
     ELSE [err |-> "nil", db |-> ApplyWrite(db, upd)]

\* The fields whose new value differs from the value read by Get.
ChangedFields(e, oldUniques) ==
  {f \in DOMAIN UniqueFields(e) : oldUniques[f] # UniqueFields(e)[f]}

\* The transaction of updateWithUniqueConstraints: for each changed field a
\* delete of the old constraint record (when the old value is not empty) and
\* a conditional put of the new one, then the update of the entity.
UpdateItems(e, oldUniques, expectedVersion, t) ==
  LET parentRef == ParentRef(e)
      newUniques == UniqueFields(e)
      newUniquePKs == {UniqueConstraintPK(parentRef, EntityType(e), f,
                                          newUniques[f]) : f \in DOMAIN newUniques}
      changed == SetToSeq(ChangedFields(e, oldUniques))
      perField(f) ==
        LET oldValue == oldUniques[f]
            oldPK == UniqueConstraintPK(parentRef, EntityType(e), f, oldValue)
        IN (IF oldValue # ""
            THEN << [op |-> "Delete", kind |-> "uniq",
                     key |-> <<oldPK, "CONSTRAINT">>, cond |-> NoCond] >>
            ELSE <<>>)
           \o << ConstraintPut(e, parentRef, f, newUniques[f]) >>
      RECURSIVE Flat(_)
      Flat(fs) == IF fs = <<>> THEN <<>>
                  ELSE perField(Head(fs)) \o Flat(Tail(fs))
  IN Flat(changed) \o
     << [op |-> "Update", kind |-> "entity",
         key |-> <<TableName(e), GetKey(e)>>,
         payload |-> e.payload, updated_at |-> t,
         unique_pks |-> newUniquePKs,
         cond |-> VersionGuard(expectedVersion)] >>

\* updateWithUniqueConstraints after its Get: oldUniques are the unique
\* values of the item it read.
updateWithUniqueConstraints(db, e, oldUniques, expectedVersion, t, fail) ==
  IF ChangedFields(e, oldUniques) = {}
  THEN updateSimple(db, e, expectedVersion, t, fail)
  ELSE LET r == IF fail THEN [err |-> "error", reasons |-> <<>>, db |-> db]
                ELSE TransactWriteItems(db,
                       UpdateItems(e, oldUniques, expectedVersion, t))
       IN [err |-> mapUpdateTransactionError(r), db |-> r.db]

\* An Update that takes the unique-aware path for every UniqueFielder.
UniqueAware_AnyUniqueFielder(e) == IsUniqueFielder(e)

\* Update takes the unique-aware path iff the entity has unique fields and
\* a non-empty parent reference.
UniqueAware(e) ==
  IsUniqueFielder(e) /\ IsParentChecker(e) /\ ParentRef(e) # ""

--------------------------------------------------------------------------
\* store/store.go: SetTTL, HasActiveChildren, QueryAllChildren, SetTTLByKey,
\* SetRelationshipTTL, SetUniqueConstraintTTL

\* A condition failure is swallowed; every other error is returned.
IgnoreCondFailure(r) ==
  [r EXCEPT !.err = IF r.err = "ConditionalCheckFailed" THEN "nil" ELSE r.err]

\* A SetTTL that marks the entity's edges together with its item.
SetTTL_WithEdge(db, e, t, fail) ==
  IF fail THEN [err |-> "error", db |-> db, events |-> {}]
  ELSE LET r == IgnoreCondFailure(
                  UpdateItemSetTTLVersion(db, TableName(e), GetKey(e), t))
       IN [r EXCEPT !.db.rels =
             {IF x.child_ref = EntityRef(e) THEN [x EXCEPT !.ttl = t] ELSE x :
                x \in r.db.rels}]

SetTTL(db, e, t, fail) ==
  IF fail THEN [err |-> "error", db |-> db, events |-> {}]
  ELSE IgnoreCondFailure(UpdateItemSetTTLVersion(db, TableName(e), GetKey(e), t))

\* A SetTTLByKey that writes a later time than the one it is given.
SetTTLByKey_Later(db, table, key, ttl, fail) ==
  IF fail THEN [err |-> "error", db |-> db, events |-> {}]
  ELSE IgnoreCondFailure(UpdateItemSetTTLVersion(db, table, key, ttl + 1))

SetTTLByKey(db, table, key, ttl, fail) ==
  IF fail THEN [err |-> "error", db |-> db, events |-> {}]
  ELSE IgnoreCondFailure(UpdateItemSetTTLVersion(db, table, key, ttl))

\* A SetRelationshipTTL that derives the partition key from the child.
SetRelationshipTTL_ChildShard(db, childRef, parentRef, ttl, fail) ==
  IF fail THEN [err |-> "error", db |-> db]
  ELSE IgnoreCondFailure(
         UpdateItemSetTTL(db, "rel",
                          <<relationshipPK(childRef, parentRef), childRef>>, ttl))

SetRelationshipTTL(db, childRef, parentRef, ttl, fail) ==
  IF fail THEN [err |-> "error", db |-> db]
  ELSE IgnoreCondFailure(
         UpdateItemSetTTL(db, "rel",
                          <<relationshipPK(parentRef, childRef), childRef>>, ttl))

SetUniqueConstraintTTL(db, pk, ttl, fail) ==
  IF fail THEN [err |-> "error", db |-> db]
  ELSE IgnoreCondFailure(UpdateItemSetTTL(db, "uniq", <<pk, "CONSTRAINT">>, ttl))

\* The sort key of the relationship table is child_ref; a Query returns a
\* partition in sort-key order. The references of the model in that order:
RefOrder == <<"studio#1", "studio#2", "title#1">>

RefRank(ref) ==
  IF \E i \in 1..Len(RefOrder) : RefOrder[i] = ref
  THEN CHOOSE i \in 1..Len(RefOrder) : RefOrder[i] = ref
  ELSE Len(RefOrder) + 1

Partition(db, shardPK) == {r \in db.rels : r.pk = shardPK}

\* Query with Limit 1 and a FilterExpression: DynamoDB reads at most Limit
\* items of the partition and applies the filter to what it read, so the
\* result holds the first edge of the partition if it passes the filter.
QueryFirstActive(db, shardPK, t) ==
  {r \in Partition(db, shardPK) :
     /\ \A q \in Partition(db, shardPK) : RefRank(r.child_ref) <= RefRank(q.child_ref)
     /\ TTLFilterExpr(r, t)}

hasActiveChildrenSingleShard(db, entityRef, t) ==
  QueryFirstActive(db, entityRef \o "#00", t) # {}

\* unmarshalChildRef of every edge of the single shard, tombstoned or not.
queryChildrenSingleShard(db, parentRef) ==
  {[Ref |-> r.child_ref, TableName |-> r.child_table, Key |-> r.child_key,
    ShardPK |-> r.pk] : r \in Partition(db, parentRef \o "#00")}

--------------------------------------------------------------------------
\* Callers and their inputs

Organization(id, name) ==
  [type |-> "organization", id |-> id, parent |-> "", payload |-> [name |-> name]]

Studio(id, orgId, slug) ==
  [type |-> "studio", id |-> id, parent |-> orgId, payload |-> [slug |-> slug]]

\* A root entity with unique fields: a UniqueFielder that is no
\* ParentChecker, so its parent reference is empty.
Label(id, slug) ==
  [type |-> "label", id |-> id, parent |-> "", payload |-> [slug |-> slug]]

Title(id, studioId, name) ==
  [type |-> "title", id |-> id, parent |-> studioId, payload |-> [name |-> name]]

Slugs == {"", "a"}

\* One organization and one studio below it.
StoreInputs ==
  {Organization("1", "x")} \cup {Studio("1", "1", s) : s \in Slugs}

\* Two sibling studios of one organization.
SiblingInputs == {Studio(i, "1", s) : i \in {"1", "2"}, s \in Slugs}

DeleteOptions == [Cascade : BOOLEAN, OrphanProtect : BOOLEAN]

NoEnt == [type |-> "", id |-> "", parent |-> "", payload |-> <<>>]
NoOpts == [Cascade |-> FALSE, OrphanProtect |-> FALSE]
NoRet == "-"

\* The locals of a call in flight: the entity, the expected version, the
\* delete options, the captured time and the unique values read by Get.
Idle ==
  [pc |-> "idle", ent |-> NoEnt, exp |-> 0, opts |-> NoOpts, t |-> 0,
   oldUniques |-> <<>>]

SetDB(db) ==
  /\ items' = db.items
  /\ rels' = db.rels
  /\ uniq' = db.uniq

\* The call of caller c returns err.
Returns(c, err) ==
  /\ calls' = [calls EXCEPT ![c] = Idle]
  /\ ret' = err

--------------------------------------------------------------------------
\* Actions of the store's callers: one action per store call of an operation

Tick ==
  /\ now < MaxTime
  /\ now' = now + 1
  /\ ret' = NoRet
  /\ UNCHANGED <<items, rels, uniq, calls, stream, acked, hnd, hac, qac, rd>>

\* Create, lines 61-65: the call captures time.Now() before it builds the
\* transaction.
CreateBegin(c, e) ==
  /\ calls[c].pc = "idle"
  /\ calls' = [calls EXCEPT ![c] =
                 [Idle EXCEPT !.pc = "create_tx", !.ent = e, !.t = now]]
  /\ ret' = NoRet
  /\ UNCHANGED <<now, items, rels, uniq, stream, acked, hnd, hac, qac, rd>>

\* Create, lines 179-184: the transaction and the mapping of its error.
CreateTx(c, fail) ==
  /\ calls[c].pc = "create_tx"
  /\ LET r == Create(DB, calls[c].ent, calls[c].t, fail)
     IN SetDB(r.db) /\ Returns(c, r.err)
  /\ UNCHANGED <<now, stream, acked, hnd, hac, qac, rd>>

\* Update, lines 269-281: the choice of the path.
UpdateBegin(c, e, expectedVersion) ==
  /\ calls[c].pc = "idle"
  /\ calls' = [calls EXCEPT ![c] =
                 [Idle EXCEPT !.pc = IF UniqueAware(e) THEN "update_get"
                                     ELSE "update_simple",
                              !.ent = e, !.exp = expectedVersion]]
  /\ ret' = NoRet
  /\ UNCHANGED <<now, items, rels, uniq, stream, acked, hnd, hac, qac, rd>>

\* updateSimple called from Update: one conditional UpdateItem.
UpdateSimple(c, fail) ==
  /\ calls[c].pc = "update_simple"
  /\ LET r == updateSimple(DB, calls[c].ent, calls[c].exp, now, fail)
     IN SetDB(r.db) /\ Returns(c, r.err)
  /\ UNCHANGED <<now, stream, acked, hnd, hac, qac, rd>>

\* updateWithUniqueConstraints, lines 342-358: the Get of the current item
\* and the old unique values read from it.
UpdateGet(c, fail) ==
  /\ calls[c].pc = "update_get"
  /\ LET e == calls[c].ent
         g == Get(DB, TableName(e), GetKey(e), now)
     IN IF fail THEN Returns(c, "error")
        ELSE IF g.err # "nil" THEN Returns(c, g.err)
        ELSE /\ calls' = [calls EXCEPT
                            ![c].pc = "update_tx",
                            ![c].oldUniques =
                               [f \in DOMAIN UniqueFields(e) |-> g.item.payload[f]]]
             /\ ret' = NoRet
  /\ UNCHANGED <<now, items, rels, uniq, stream, acked, hnd, hac, qac, rd>>

\* updateWithUniqueConstraints, lines 360-479: the simple update when no
\* unique field changed, the transaction otherwise.
UpdateTx(c, fail) ==
  /\ calls[c].pc = "update_tx"
  /\ LET r == updateWithUniqueConstraints(DB, calls[c].ent, calls[c].oldUniques,
                                          calls[c].exp, now, fail)
     IN SetDB(r.db) /\ Returns(c, r.err)
  /\ UNCHANGED <<now, stream, acked, hnd, hac, qac, rd>>

\* A Delete that probes whenever OrphanProtect is set.
DeleteBegin_OrphanProtectAlone(c, e, opts) ==
  /\ calls[c].pc = "idle"
  /\ calls' = [calls EXCEPT ![c] =
                 [Idle EXCEPT !.pc = IF opts.OrphanProtect
                                     THEN "delete_probe" ELSE "delete_ttl",
                              !.ent = e, !.opts = opts]]
  /\ ret' = NoRet
  /\ UNCHANGED <<now, items, rels, uniq, stream, acked, hnd, hac, qac, rd>>

\* Delete, line 493: the probe runs iff OrphanProtect is set and Cascade is
\* not.
DeleteBegin(c, e, opts) ==
  /\ calls[c].pc = "idle"
  /\ calls' = [calls EXCEPT ![c] =
                 [Idle EXCEPT !.pc = IF opts.OrphanProtect /\ ~opts.Cascade
                                     THEN "delete_probe" ELSE "delete_ttl",
                              !.ent = e, !.opts = opts]]
  /\ ret' = NoRet
  /\ UNCHANGED <<now, items, rels, uniq, stream, acked, hnd, hac, qac, rd>>

\* Delete, lines 494-500: HasActiveChildren (one shard) and its outcome.
DeleteProbe(c, fail) ==
  /\ calls[c].pc = "delete_probe"
  /\ IF fail THEN Returns(c, "error")
     ELSE IF hasActiveChildrenSingleShard(DB, EntityRef(calls[c].ent), now)
     THEN Returns(c, "ErrHasChildren")
     ELSE calls' = [calls EXCEPT ![c].pc = "delete_ttl"] /\ ret' = NoRet
  /\ UNCHANGED <<now, items, rels, uniq, stream, acked, hnd, hac, qac, rd>>

\* Delete, line 503: SetTTL; the backing store emits the change event.
DeleteSetTTL(c, fail) ==
  /\ calls[c].pc = "delete_ttl"
  /\ LET r == SetTTL(DB, calls[c].ent, now, fail)
     IN /\ SetDB(r.db)
        /\ stream' = stream \cup r.events
        /\ Returns(c, r.err)
  /\ UNCHANGED <<now, acked, hnd, hac, qac, rd>>

\* The calls of the callers on entities drawn from Inputs.
StoreNext(Inputs) ==
  \/ Tick
  \/ \E c \in Callers, e \in Inputs : CreateBegin(c, e)
  \/ \E c \in Callers, fail \in BOOLEAN : CreateTx(c, fail)
  \/ \E c \in Callers, e \in Inputs, v \in 1..(MaxVersion - 1) :
        UpdateBegin(c, e, v)
  \/ \E c \in Callers, fail \in BOOLEAN : UpdateSimple(c, fail)
  \/ \E c \in Callers, fail \in BOOLEAN : UpdateGet(c, fail)
  \/ \E c \in Callers, fail \in BOOLEAN : UpdateTx(c, fail)
  \/ \E c \in Callers, e \in Inputs, o \in DeleteOptions :
        DeleteBegin(c, e, o)
  \/ \E c \in Callers, fail \in BOOLEAN : DeleteProbe(c, fail)
  \/ \E c \in Callers, fail \in BOOLEAN : DeleteSetTTL(c, fail)

--------------------------------------------------------------------------
\* Specification of the store under concurrent callers: an organization and
\* a studio

NoEvent == [EventName |-> ""]

\* The locals of a handler invocation: the record, the children returned by
\* QueryAllChildren, the position in the loop that is running, and the
\* number of store calls of the handler that have failed so far.
HndIdle == [pc |-> "idle", record |-> NoEvent, children |-> <<>>, i |-> 1,
            fails |-> 0]
NoResult == [ok |-> FALSE, err |-> "-"]

\* The locals of a HasActiveChildren call: the position of the caller
\* (select, drain loop, returned), the probe time, the position of each
\* shard task, the context, the two channels, the goroutine that closes
\* them, and the returned pair. hit: a task has sent on found; failed: a
\* query has failed for a reason other than cancellation.
\* The locals of a QueryAllChildren call: the position of the caller, the
\* position and the local list of each shard task, the accumulated list,
\* the errs channel, and the returned pair. failed: a scan has failed.
QacIdle ==
  [pc |-> "idle", ref |-> "", task |-> <<>>, shardChildren |-> <<>>,
   allChildren |-> <<>>, errs |-> [q |-> <<>>, closed |-> FALSE],
   result |-> [children |-> <<>>, err |-> "-"], failed |-> FALSE]

NoRead == [op |-> "-"]

HacIdle ==
  [pc |-> "idle", ref |-> "", t |-> 0, task |-> <<>>, cancelled |-> FALSE,
   found |-> [n |-> 0, closed |-> FALSE],
   errs |-> [q |-> <<>>, closed |-> FALSE],
   closer |-> "wait", result |-> NoResult, hit |-> FALSE, failed |-> FALSE]

Init ==
  /\ now = 1
  /\ items = {}
  /\ rels = {}
  /\ uniq = {}
  /\ calls = [c \in Callers |-> Idle]
  /\ ret = NoRet
  /\ stream = {}
  /\ acked = {}
  /\ hnd = HndIdle
  /\ hac = HacIdle
  /\ qac = QacIdle
  /\ rd = NoRead

Next == StoreNext(StoreInputs)

Spec == Init /\ [][Next]_vars

--------------------------------------------------------------------------
\* Specification of sibling studios: the organization exists (as Create
\* stored it at time 1) and the callers create, update and delete two
\* studios below it, with any expected version up to MaxVersion; the clock
\* stands still.

EmptyDB == [items |-> {}, rels |-> {}, uniq |-> {}]

InitSiblings ==
  /\ now = 1
  /\ items = Create(EmptyDB, Organization("1", "x"), 1, FALSE).db.items
  /\ rels = {}
  /\ uniq = {}
  /\ calls = [c \in Callers |-> Idle]
  /\ ret = NoRet
  /\ stream = {}
  /\ acked = {}
  /\ hnd = HndIdle
  /\ hac = HacIdle
  /\ qac = QacIdle
  /\ rd = NoRead

NextSiblings ==
  \/ \E c \in Callers, e \in SiblingInputs : CreateBegin(c, e)
  \/ \E c \in Callers, fail \in BOOLEAN : CreateTx(c, fail)
  \/ \E c \in Callers, e \in SiblingInputs, v \in 1..MaxVersion :
        UpdateBegin(c, e, v)
  \/ \E c \in Callers, fail \in BOOLEAN : UpdateGet(c, fail)
  \/ \E c \in Callers, fail \in BOOLEAN : UpdateTx(c, fail)
  \/ \E c \in Callers, e \in SiblingInputs, o \in DeleteOptions :
        DeleteBegin(c, e, o)
  \/ \E c \in Callers, fail \in BOOLEAN : DeleteProbe(c, fail)
  \/ \E c \in Callers, fail \in BOOLEAN : DeleteSetTTL(c, fail)

SpecSiblings == InitSiblings /\ [][NextSiblings]_vars

--------------------------------------------------------------------------
\* stream/cascade.go: the cascade handler, one record per invocation

\* getNumberAttr(image, "ttl"): 0 when the image is missing (the pre-image
\* of an INSERT, the post-image of a REMOVE) or has no ttl attribute.
getNumberAttr(image) == IF image = NoRec THEN 0 ELSE image.ttl

Propagates_AnyNewTTL(record) ==
  /\ record.EventName = "MODIFY"
  /\ getNumberAttr(record.NewImage) # 0

\* processRecord, lines 51-61: only a MODIFY that adds a TTL propagates.
Propagates(record) ==
  /\ record.EventName = "MODIFY"
  /\ ~(getNumberAttr(record.OldImage) # 0 \/ getNumberAttr(record.NewImage) = 0)

\* QueryAllChildren (one shard): the edges in sort-key order.
RECURSIVE SortByRank(_)
SortByRank(S) ==
  IF S = {} THEN <<>>
  ELSE LET c == CHOOSE x \in S : \A y \in S : RefRank(x.Ref) <= RefRank(y.Ref)
       IN <<c>> \o SortByRank(S \ {c})

QueryAllChildren(db, parentRef) == SortByRank(queryChildrenSingleShard(db, parentRef))

\* getStringListAttr(NewImage, "_unique_pks") as a sequence.
uniquePKs(record) == SetToSeq(record.NewImage.unique_pks)

\* The loop or call processRecord runs next, from pc with loop index i:
\* children (lines 85-93), relationship (97-105), constraints (108-115),
\* then return nil.
HndNextPc(h, pc, i) ==
  IF pc = "children" /\ i <= Len(h.children) THEN "children"
  ELSE IF pc = "children" /\ h.record.NewImage.parent_ref # "" THEN "rel"
  ELSE IF pc \in {"children", "rel"} /\ Len(uniquePKs(h.record)) >= 1 THEN "uniq"
  ELSE IF pc = "uniq" /\ i <= Len(uniquePKs(h.record)) THEN "uniq"
  ELSE "done"

\* The handler moves on after a store call; processRecord returns nil when
\* nothing is left, and the record is acknowledged.
HndAdvance(h, pc, i) ==
  LET n == HndNextPc(h, pc, i)
  IN IF n = "done"
     THEN /\ hnd' = [HndIdle EXCEPT !.fails = h.fails]
          /\ acked' = acked \cup {h.record}
     ELSE /\ hnd' = [h EXCEPT !.pc = n, !.i = IF n = pc THEN i ELSE 1]
          /\ UNCHANGED acked

Failed(h, fail) == [h EXCEPT !.fails = IF fail THEN h.fails + 1 ELSE h.fails]

\* HandleCascadeDelete is invoked with a record of the stream (a first
\* delivery or a redelivery); a record that does not propagate is done.
HandlerBegin(record) ==
  /\ hnd.pc = "idle"
  /\ record \in stream
  /\ IF Propagates(record)
     THEN hnd' = [hnd EXCEPT !.pc = "query", !.record = record] /\ UNCHANGED acked
     ELSE acked' = acked \cup {record} /\ UNCHANGED hnd
  /\ ret' = NoRet
  /\ UNCHANGED <<now, items, rels, uniq, calls, stream, hac, qac, rd>>

\* processRecord, lines 73-76: a failed query fails the invocation, which
\* leaves the record to be delivered again.
HndQuery(fail) ==
  /\ hnd.pc = "query"
  /\ fail => hnd.fails < MaxFailures
  /\ IF fail
     THEN hnd' = [HndIdle EXCEPT !.fails = hnd.fails + 1] /\ UNCHANGED acked
     ELSE LET h == [hnd EXCEPT !.children =
                       QueryAllChildren(DB, hnd.record.NewImage.entity_ref)]
          IN HndAdvance(h, "children", 1)
  /\ ret' = NoRet
  /\ UNCHANGED <<now, items, rels, uniq, calls, stream, hac, qac, rd>>

\* A child loop that returns the error of a failed SetTTLByKey.
HndSetChild_Stop(fail) ==
  /\ hnd.pc = "children"
  /\ fail => hnd.fails < MaxFailures
  /\ LET child == hnd.children[hnd.i]
         r == SetTTLByKey(DB, child.TableName, child.Key,
                          hnd.record.NewImage.ttl, fail)
     IN /\ SetDB(r.db)
        /\ stream' = stream \cup r.events
        /\ IF fail
           THEN hnd' = [HndIdle EXCEPT !.fails = hnd.fails + 1] /\ UNCHANGED acked
           ELSE HndAdvance(hnd, "children", hnd.i + 1)
  /\ ret' = NoRet
  /\ UNCHANGED <<now, calls, hac, qac, rd>>

\* processRecord, lines 85-93: SetTTLByKey on one child; an error is logged
\* and the loop continues.
HndSetChild(fail) ==
  /\ hnd.pc = "children"
  /\ fail => hnd.fails < MaxFailures
  /\ LET child == hnd.children[hnd.i]
         r == SetTTLByKey(DB, child.TableName, child.Key,
                          hnd.record.NewImage.ttl, fail)
     IN /\ SetDB(r.db)
        /\ stream' = stream \cup r.events
        /\ HndAdvance(Failed(hnd, fail), "children", hnd.i + 1)
  /\ ret' = NoRet
  /\ UNCHANGED <<now, calls, hac, qac, rd>>

\* processRecord, lines 97-105: SetRelationshipTTL; an error is logged.
HndSetRel(fail) ==
  /\ hnd.pc = "rel"
  /\ fail => hnd.fails < MaxFailures
  /\ LET r == SetRelationshipTTL(DB, hnd.record.NewImage.entity_ref,
                                 hnd.record.NewImage.parent_ref,
                                 hnd.record.NewImage.ttl, fail)
     IN /\ SetDB(r.db)
        /\ HndAdvance(Failed(hnd, fail), "rel", 1)
  /\ ret' = NoRet
  /\ UNCHANGED <<now, calls, stream, hac, qac, rd>>

\* processRecord, lines 108-115: SetUniqueConstraintTTL on one constraint
\* key; an error is logged and the loop continues.
HndSetUniq(fail) ==
  /\ hnd.pc = "uniq"
  /\ fail => hnd.fails < MaxFailures
  /\ LET r == SetUniqueConstraintTTL(DB, uniquePKs(hnd.record)[hnd.i],
                                     hnd.record.NewImage.ttl, fail)
     IN /\ SetDB(r.db)
        /\ HndAdvance(Failed(hnd, fail), "uniq", hnd.i + 1)
  /\ ret' = NoRet
  /\ UNCHANGED <<now, calls, stream, hac, qac, rd>>

HandlerStep ==
  \/ \E fail \in BOOLEAN : HndQuery(fail)
  \/ \E fail \in BOOLEAN : HndSetChild(fail)
  \/ \E fail \in BOOLEAN : HndSetRel(fail)
  \/ \E fail \in BOOLEAN : HndSetUniq(fail)

\* A handling of the record in which no store call fails.
RECURSIVE SetChildren(_, _, _)
SetChildren(db, children, ttl) ==
  IF children = <<>> THEN db
  ELSE SetChildren(SetTTLByKey(db, Head(children).TableName,
                               Head(children).Key, ttl, FALSE).db,
                   Tail(children), ttl)

RECURSIVE SetConstraints(_, _, _)
SetConstraints(db, pks, ttl) ==
  IF pks = <<>> THEN db
  ELSE SetConstraints(SetUniqueConstraintTTL(db, Head(pks), ttl, FALSE).db,
                      Tail(pks), ttl)

processRecord(db, record) ==
  IF ~Propagates(record) THEN db
  ELSE LET img == record.NewImage
           d1 == SetChildren(db, QueryAllChildren(db, img.entity_ref), img.ttl)
           d2 == IF img.parent_ref # ""
                 THEN SetRelationshipTTL(d1, img.entity_ref, img.parent_ref,
                                         img.ttl, FALSE).db
                 ELSE d1
       IN SetConstraints(d2, uniquePKs(record), img.ttl)

--------------------------------------------------------------------------
\* Specification of the cascade: an organization with two studios and a
\* title below the first studio exist (as Create stored them at time 1); the
\* callers delete entities and the handler is invoked with the change
\* events, each possibly more than once.

CascadeTree ==
  LET d1 == Create(EmptyDB, Organization("1", "x"), 1, FALSE).db
      d2 == Create(d1, Studio("1", "1", "a"), 1, FALSE).db
      d3 == Create(d2, Studio("2", "1", ""), 1, FALSE).db
  IN Create(d3, Title("1", "1", "t"), 1, FALSE).db

CascadeInputs == {Organization("1", "x"), Studio("1", "1", "a")}

InitCascade ==
  /\ now = 1
  /\ items = CascadeTree.items
  /\ rels = CascadeTree.rels
  /\ uniq = CascadeTree.uniq
  /\ calls = [c \in Callers |-> Idle]
  /\ ret = NoRet
  /\ stream = {}
  /\ acked = {}
  /\ hnd = HndIdle
  /\ hac = HacIdle
  /\ qac = QacIdle
  /\ rd = NoRead

NextCascade ==
  \/ Tick
  \/ \E c \in Callers, e \in CascadeInputs :
        DeleteBegin(c, e, [Cascade |-> TRUE, OrphanProtect |-> FALSE])
  \/ \E c \in Callers, fail \in BOOLEAN : DeleteSetTTL(c, fail)
  \/ \E record \in stream : HandlerBegin(record)
  \/ HandlerStep

SpecCascade == InitCascade /\ [][NextCascade]_vars

\* Every record that is not acknowledged is delivered again and again, and
\* an invocation runs to its end.
SpecCascadeFair ==
  /\ SpecCascade
  /\ SF_vars(\E record \in stream \ acked : HandlerBegin(record))
  /\ WF_vars(HandlerStep)

--------------------------------------------------------------------------
\* Specification of the event filter: the stream of the entity table holds,
\* for one entity of the tree, a record of every kind the table's stream
\* can carry, and the handler is invoked with them in any order, each
\* possibly more than once.

\* The change records of an item: its creation, an Update, the first
\* tombstone, an Update of the tombstoned item, a change and a removal of
\* the TTL, and the reclamation of the item.
EventsOf(item) ==
  LET updated == [item EXCEPT !.version = 2]
      deleted == [item EXCEPT !.ttl = 1, !.version = 2]
      later == [item EXCEPT !.ttl = 2, !.version = 3]
  IN {[EventName |-> "INSERT", OldImage |-> NoRec, NewImage |-> item],
      [EventName |-> "MODIFY", OldImage |-> item, NewImage |-> updated],
      [EventName |-> "MODIFY", OldImage |-> item, NewImage |-> deleted],
      [EventName |-> "MODIFY", OldImage |-> deleted,
       NewImage |-> [deleted EXCEPT !.version = 3]],
      [EventName |-> "MODIFY", OldImage |-> deleted, NewImage |-> later],
      [EventName |-> "MODIFY", OldImage |-> deleted,
       NewImage |-> [item EXCEPT !.version = 3]],
      [EventName |-> "REMOVE", OldImage |-> deleted, NewImage |-> NoRec]}

InitFilter ==
  /\ now = 1
  /\ items = CascadeTree.items
  /\ rels = CascadeTree.rels
  /\ uniq = CascadeTree.uniq
  /\ calls = [c \in Callers |-> Idle]
  /\ ret = NoRet
  /\ \E e \in CascadeInputs :
        stream = EventsOf(Lookup(CascadeTree, "entity",
                                 <<TableName(e), GetKey(e)>>))
  /\ acked = {}
  /\ hnd = HndIdle
  /\ hac = HacIdle
  /\ qac = QacIdle
  /\ rd = NoRead

NextFilter ==
  \/ \E record \in stream : HandlerBegin(record)
  \/ HandlerStep

SpecFilter == InitFilter /\ [][NextFilter]_vars

--------------------------------------------------------------------------
\* store/store.go, HasActiveChildren with more than one shard

HacTasks == 0..(HacShards - 1)

HacReturn(h, ok, err) ==
  [h EXCEPT !.pc = "done", !.result = [ok |-> ok, err |-> err],
            !.cancelled = TRUE]

\* Lines 538-557: the probe time, the fast path of one shard, else the
\* context, the channels and one goroutine per shard.
HacBegin(entityRef, fail) ==
  /\ hac.pc = "idle"
  /\ fail => HacShards = 1
  /\ hac' = IF HacShards = 1
            THEN IF fail THEN HacReturn(hac, FALSE, "error")
                 ELSE HacReturn([hac EXCEPT !.ref = entityRef, !.t = now],
                                hasActiveChildrenSingleShard(DB, entityRef, now),
                                "nil")
            ELSE [hac EXCEPT !.pc = "select", !.ref = entityRef, !.t = now,
                             !.task = [s \in HacTasks |-> "start"]]
  /\ ret' = NoRet
  /\ UNCHANGED <<now, items, rels, uniq, calls, stream, acked, hnd, qac, rd>>

\* Lines 562-566: a task that finds the context done returns.
HacTaskStart(s) ==
  /\ hac.pc # "idle"
  /\ s \in DOMAIN hac.task
  /\ hac.task[s] = "start"
  /\ hac' = [hac EXCEPT !.task[s] = IF hac.cancelled THEN "done" ELSE "query"]
  /\ ret' = NoRet
  /\ UNCHANGED <<now, items, rels, uniq, calls, stream, acked, hnd, qac, rd>>

\* An errs channel with room for one error less than there are shards.
ErrsCapacity_OneLess(numShards) == numShards - 1

\* Lines 554 and 658: errs := make(chan error, numShards).
ErrsCapacity(numShards) == numShards

\* The position of a task that holds the error of its query and is about
\* to send it, and the error it holds.
HacSending(outcome) == "send " \o outcome
HacHeld(pos) == IF pos = HacSending("error") THEN "error" ELSE "context.Canceled"

\* Lines 568-594: the query of one shard returns. A failed query leaves the
\* task at the send of its error; a query under a cancelled context may
\* fail with context.Canceled; a query that found an edge sends on found if
\* the buffer has room, and then cancels the context.
HacTaskQuery(s, outcome) ==
  /\ hac.pc # "idle"
  /\ s \in DOMAIN hac.task
  /\ hac.task[s] = "query"
  /\ outcome = "context.Canceled" => hac.cancelled
  /\ LET shardPK == hac.ref \o "#" \o Hex2(s)
         h == [hac EXCEPT !.task[s] = "done"]
     IN hac' =
          IF outcome # "nil"
          THEN [hac EXCEPT !.task[s] = HacSending(outcome)]
          ELSE IF QueryFirstActive(DB, shardPK, hac.t) # {} /\ hac.found.n = 0
          THEN [h EXCEPT !.found.n = 1, !.cancelled = TRUE, !.hit = TRUE]
          ELSE h
  /\ ret' = NoRet
  /\ UNCHANGED <<now, items, rels, uniq, calls, stream, acked, hnd, qac, rd>>

\* Lines 584-587: errs <- err, which waits while the buffer is full, and
\* the return of the task.
HacTaskSend(s) ==
  /\ hac.pc # "idle"
  /\ s \in DOMAIN hac.task
  /\ hac.task[s] \in {HacSending("error"), HacSending("context.Canceled")}
  /\ Len(hac.errs.q) < ErrsCapacity(HacShards)
  /\ hac' = [hac EXCEPT !.task[s] = "done",
                        !.errs.q = Append(hac.errs.q, HacHeld(hac.task[s])),
                        !.failed = hac.failed \/ HacHeld(hac.task[s]) = "error"]
  /\ ret' = NoRet
  /\ UNCHANGED <<now, items, rels, uniq, calls, stream, acked, hnd, qac, rd>>

\* Lines 598-602: after wg.Wait, close(found), then close(errs).
HacCloseFound ==
  /\ hac.pc # "idle"
  /\ hac.closer = "wait"
  /\ \A s \in DOMAIN hac.task : hac.task[s] = "done"
  /\ hac' = [hac EXCEPT !.found.closed = TRUE, !.closer = "found_closed"]
  /\ ret' = NoRet
  /\ UNCHANGED <<now, items, rels, uniq, calls, stream, acked, hnd, qac, rd>>

HacCloseErrs ==
  /\ hac.closer = "found_closed"
  /\ hac' = [hac EXCEPT !.errs.closed = TRUE, !.closer = "done"]
  /\ ret' = NoRet
  /\ UNCHANGED <<now, items, rels, uniq, calls, stream, acked, hnd, qac, rd>>

\* Lines 604-606: the select receives from found (a value, or the zero
\* value of the closed channel).
HacSelectFound ==
  /\ hac.pc = "select"
  /\ hac.found.n > 0 \/ hac.found.closed
  /\ hac' = HacReturn(hac, TRUE, "nil")
  /\ ret' = NoRet
  /\ UNCHANGED <<now, items, rels, uniq, calls, stream, acked, hnd, qac, rd>>

\* Lines 607-611: the select receives from errs (an error, or nil from the
\* closed channel).
HacSelectErrs ==
  /\ hac.pc = "select"
  /\ hac.errs.q # <<>> \/ hac.errs.closed
  /\ hac' = IF hac.errs.q # <<>>
            THEN HacReturn([hac EXCEPT !.errs.q = Tail(hac.errs.q)],
                           FALSE, Head(hac.errs.q))
            ELSE [hac EXCEPT !.pc = "drain"]
  /\ ret' = NoRet
  /\ UNCHANGED <<now, items, rels, uniq, calls, stream, acked, hnd, qac, rd>>

\* Lines 613-619: the loop over errs skips context.Canceled and ends when
\* the channel is closed and empty.
HacDrain ==
  /\ hac.pc = "drain"
  /\ hac.errs.q # <<>> \/ hac.errs.closed
  /\ hac' = IF hac.errs.q = <<>> THEN HacReturn(hac, FALSE, "nil")
            ELSE IF Head(hac.errs.q) # "context.Canceled"
            THEN HacReturn([hac EXCEPT !.errs.q = Tail(hac.errs.q)],
                           FALSE, Head(hac.errs.q))
            ELSE [hac EXCEPT !.errs.q = Tail(hac.errs.q)]
  /\ ret' = NoRet
  /\ UNCHANGED <<now, items, rels, uniq, calls, stream, acked, hnd, qac, rd>>

--------------------------------------------------------------------------
\* Specification of the probe over HacShards shards: below the organization
\* each of two studios is absent, active, or deleted with its cascade
\* complete; the edges are keyed as a store of HacShards shards keys them.

HacChild(db, id, slug, state) ==
  IF state = "absent" THEN db
  ELSE LET d1 == Create(db, Studio(id, "1", slug), 1, FALSE).db
           r == SetTTLByKey(d1, "studios", id, 1, FALSE)
       IN IF state = "active" THEN d1
          ELSE processRecord(r.db, CHOOSE record \in r.events : TRUE)

HacTree(s1, s2) ==
  LET d0 == Create(EmptyDB, Organization("1", "x"), 1, FALSE).db
      d == HacChild(HacChild(d0, "1", "a", s1), "2", "", s2)
  IN [d EXCEPT !.rels =
        {[r EXCEPT !.pk = RelationshipPK(r.parent_ref, r.child_ref, HacShards)]
           : r \in d.rels}]

InitHAC ==
  /\ now = 1
  /\ \E s1, s2 \in {"absent", "active", "deleted"} :
        /\ items = HacTree(s1, s2).items
        /\ rels = HacTree(s1, s2).rels
        /\ uniq = HacTree(s1, s2).uniq
  /\ calls = [c \in Callers |-> Idle]
  /\ ret = NoRet
  /\ stream = {}
  /\ acked = {}
  /\ hnd = HndIdle
  /\ hac = HacIdle
  /\ qac = QacIdle
  /\ rd = NoRead

NextHAC ==
  \/ \E fail \in BOOLEAN : HacBegin("organization#1", fail)
  \/ \E s \in HacTasks : HacTaskStart(s)
  \/ \E s \in HacTasks, outcome \in {"nil", "error", "context.Canceled"} :
        HacTaskQuery(s, outcome)
  \/ \E s \in HacTasks : HacTaskSend(s)
  \/ HacCloseFound
  \/ HacCloseErrs
  \/ HacSelectFound
  \/ HacSelectErrs
  \/ HacDrain

SpecHAC == InitHAC /\ [][NextHAC]_vars

--------------------------------------------------------------------------
\* store/store.go, QueryAllChildren with more than one shard

\* unmarshalChildRef of every edge of one shard, in sort-key order.
queryChildrenShard(db, shardPK) ==
  SortByRank({[Ref |-> r.child_ref, TableName |-> r.child_table,
               Key |-> r.child_key, ShardPK |-> r.pk]
                : r \in Partition(db, shardPK)})

\* Lines 643-660: the fast path of one shard, else the list, the lock, the
\* errs channel and one goroutine per shard.
QacBegin(parentRef, fail) ==
  /\ qac.pc = "idle"
  /\ fail => HacShards = 1
  /\ qac' = IF HacShards = 1
            THEN [qac EXCEPT !.pc = "done", !.ref = parentRef, !.failed = fail,
                    !.result = IF fail THEN [children |-> <<>>, err |-> "error"]
                               ELSE [children |-> QueryAllChildren(DB, parentRef),
                                     err |-> "nil"]]
            ELSE [qac EXCEPT !.pc = "range", !.ref = parentRef,
                             !.task = [s \in HacTasks |-> "scan"],
                             !.shardChildren = [s \in HacTasks |-> <<>>]]
  /\ ret' = NoRet
  /\ UNCHANGED <<now, items, rels, uniq, calls, stream, acked, hnd, hac, rd>>

\* Lines 665-685: the paginated query of one shard; a failed page leaves
\* the task at the send of its error.
QacTaskScan(s, fail) ==
  /\ s \in DOMAIN qac.task
  /\ qac.task[s] = "scan"
  /\ qac' = IF fail
            THEN [qac EXCEPT !.task[s] = "send"]
            ELSE [qac EXCEPT !.task[s] = "append",
                             !.shardChildren[s] =
                                queryChildrenShard(DB, qac.ref \o "#" \o Hex2(s))]
  /\ ret' = NoRet
  /\ UNCHANGED <<now, items, rels, uniq, calls, stream, acked, hnd, hac, rd>>

\* Lines 678-680: errs <- the wrapped error, which waits while the buffer
\* is full, and the return of the task.
QacTaskSend(s) ==
  /\ s \in DOMAIN qac.task
  /\ qac.task[s] = "send"
  /\ Len(qac.errs.q) < ErrsCapacity(HacShards)
  /\ qac' = [qac EXCEPT !.task[s] = "done", !.failed = TRUE,
                        !.errs.q = Append(qac.errs.q, "shard error")]
  /\ ret' = NoRet
  /\ UNCHANGED <<now, items, rels, uniq, calls, stream, acked, hnd, hac, rd>>

\* Lines 687-689: under the lock, the task appends its list.
QacTaskAppend(s) ==
  /\ s \in DOMAIN qac.task
  /\ qac.task[s] = "append"
  /\ qac' = [qac EXCEPT !.task[s] = "done",
                        !.allChildren = qac.allChildren \o qac.shardChildren[s]]
  /\ ret' = NoRet
  /\ UNCHANGED <<now, items, rels, uniq, calls, stream, acked, hnd, hac, rd>>

QacAllDone_NoWait(q) == TRUE

\* wg.Wait returns when every task has called wg.Done.
QacAllDone(q) == \A s \in DOMAIN q.task : q.task[s] = "done"

\* Lines 693-696: after wg.Wait, close(errs).
QacClose ==
  /\ qac.pc # "idle"
  /\ ~qac.errs.closed
  /\ QacAllDone(qac)
  /\ qac' = [qac EXCEPT !.errs.closed = TRUE]
  /\ ret' = NoRet
  /\ UNCHANGED <<now, items, rels, uniq, calls, stream, acked, hnd, hac, rd>>

\* Lines 698-704: the loop over errs returns the first error with a nil
\* list; when the channel is closed and empty the list is returned.
QacRange ==
  /\ qac.pc = "range"
  /\ qac.errs.q # <<>> \/ qac.errs.closed
  /\ qac' = IF qac.errs.q # <<>>
            THEN [qac EXCEPT !.pc = "done", !.errs.q = Tail(qac.errs.q),
                    !.result = [children |-> <<>>, err |-> Head(qac.errs.q)]]
            ELSE [qac EXCEPT !.pc = "done",
                    !.result = [children |-> qac.allChildren, err |-> "nil"]]
  /\ ret' = NoRet
  /\ UNCHANGED <<now, items, rels, uniq, calls, stream, acked, hnd, hac, rd>>

NextQAC ==
  \/ \E fail \in BOOLEAN : QacBegin("organization#1", fail)
  \/ \E s \in HacTasks, fail \in BOOLEAN : QacTaskScan(s, fail)
  \/ \E s \in HacTasks : QacTaskSend(s)
  \/ \E s \in HacTasks : QacTaskAppend(s)
  \/ QacClose
  \/ QacRange

\* The probe's initial states: each of two studios absent, active or
\* deleted, the edges keyed over HacShards shards.
SpecQAC == InitHAC /\ [][NextQAC]_vars

--------------------------------------------------------------------------
\* Specification of the life cycle with reclamation: the tables have TTL
\* enabled on the attribute ttl, so the backing store removes, one record at
\* a time and at a time of its choosing, records whose ttl is in the past.
\* An organization and a studio below it exist; the callers delete the
\* studio and create it again, and the handler is invoked with the events
\* (the studio has no children: the loop over the children is empty). No
\* store call fails.

Reclaim(kind, r) ==
  /\ r \in Table(DB, kind)
  /\ IsDeleted(r, now)
  /\ SetDB(WithTable(DB, kind, Table(DB, kind) \ {r}))
  /\ ret' = NoRet
  /\ UNCHANGED <<now, calls, stream, acked, hnd, hac, qac, rd>>

ReclaimTree ==
  Create(Create(EmptyDB, Organization("1", "x"), 1, FALSE).db,
         Studio("1", "1", "a"), 1, FALSE).db

ReclaimInputs == {Studio("1", "1", "a")}

InitReclaim ==
  /\ now = 1
  /\ items = ReclaimTree.items
  /\ rels = ReclaimTree.rels
  /\ uniq = ReclaimTree.uniq
  /\ calls = [c \in Callers |-> Idle]
  /\ ret = NoRet
  /\ stream = {}
  /\ acked = {}
  /\ hnd = HndIdle
  /\ hac = HacIdle
  /\ qac = QacIdle
  /\ rd = NoRead

\* One caller, whose calls follow one another.
ReclaimCaller == "c1"

NextReclaim ==
  \/ Tick
  \/ \E e \in ReclaimInputs : CreateBegin(ReclaimCaller, e)
  \/ CreateTx(ReclaimCaller, FALSE)
  \/ \E e \in ReclaimInputs :
        DeleteBegin(ReclaimCaller, e, [Cascade |-> TRUE, OrphanProtect |-> FALSE])
  \/ DeleteSetTTL(ReclaimCaller, FALSE)
  \/ \E record \in stream : HandlerBegin(record)
  \/ HndQuery(FALSE)
  \/ HndSetRel(FALSE)
  \/ HndSetUniq(FALSE)
  \/ \E kind \in {"entity", "rel", "uniq"} :
        \E r \in Table(DB, kind) : Reclaim(kind, r)

SpecReclaim == InitReclaim /\ [][NextReclaim]_vars

--------------------------------------------------------------------------
\* Specification of the reads: a client of the store calls Get, alone or
\* right after a Delete of the same entity that returned nil, while TTLs
\* are set through SetTTLByKey and the clock advances. Get calls GetItem
\* without ConsistentRead (store.go 188-191), so the read is served by a
\* copy of the table that may lag behind the committed writes.

\* The client's position: op is "-" between calls; replica is the copy of
\* the entity tables that serves eventually consistent reads.
GetIdle(replica) == [op |-> "-", replica |-> replica]

GetInputs == {Studio("1", "1", "a"), Studio("2", "1", ""), Studio("3", "1", "b")}

\* The copy catches up with the table.
ReplicaSync ==
  /\ rd.replica # items
  /\ rd' = [rd EXCEPT !.replica = items]
  /\ ret' = NoRet
  /\ UNCHANGED <<now, items, rels, uniq, calls, stream, acked, hnd, hac, qac>>

\* SetTTLByKey called with a TTL of the caller's choice.
SetTTLByKeyCall(e, ttl, fail) ==
  /\ LET r == SetTTLByKey(DB, TableName(e), GetKey(e), ttl, fail)
     IN /\ SetDB(r.db)
        /\ stream' = stream \cup r.events
        /\ ret' = r.err
  /\ UNCHANGED <<now, calls, acked, hnd, hac, qac, rd>>

\* The client calls Delete(e, DeleteOptions{}): SetTTL.
GetDelete(e, fail) ==
  /\ rd.op = "-"
  /\ LET r == SetTTL(DB, e, now, fail)
     IN /\ SetDB(r.db)
        /\ stream' = stream \cup r.events
        /\ ret' = r.err
        /\ rd' = IF r.err = "nil"
                 THEN [op |-> "deleted", replica |-> rd.replica, ent |-> e]
                 ELSE rd
  /\ UNCHANGED <<now, calls, acked, hnd, hac, qac>>

\* Get, lines 188-194: GetItem, from idle or right after the Delete of e.
GetItem(e, fail) ==
  /\ rd.op = "-" \/ (rd.op = "deleted" /\ rd.ent = e)
  /\ IF fail
     THEN rd' = GetIdle(rd.replica) /\ ret' = "error"
     ELSE /\ rd' = [op |-> "get", replica |-> rd.replica, ent |-> e,
                    afterDelete |-> (rd.op = "deleted"),
                    item |-> Lookup([items |-> rd.replica], "entity",
                                    <<TableName(e), GetKey(e)>>)]
          /\ ret' = NoRet
  /\ UNCHANGED <<now, items, rels, uniq, calls, stream, acked, hnd, hac, qac>>

\* Get, lines 195-205: nil item, IsDeleted at time.Now(), or the item.
GetCheck ==
  /\ rd.op = "get"
  /\ ret' = IF rd.item = NoRec THEN "ErrNotFound"
            ELSE IF IsDeleted(rd.item, now) THEN "ErrNotFound"
            ELSE "nil"
  /\ rd' = GetIdle(rd.replica)
  /\ UNCHANGED <<now, items, rels, uniq, calls, stream, acked, hnd, hac, qac>>

InitGet ==
  /\ now = 1
  /\ items = CascadeTree.items
  /\ rels = CascadeTree.rels
  /\ uniq = CascadeTree.uniq
  /\ calls = [c \in Callers |-> Idle]
  /\ ret = NoRet
  /\ stream = {}
  /\ acked = {}
  /\ hnd = HndIdle
  /\ hac = HacIdle
  /\ qac = QacIdle
  /\ rd = GetIdle(CascadeTree.items)

NextGet ==
  \/ Tick
  \/ ReplicaSync
  \/ \E e \in GetInputs, ttl \in 1..MaxTime, fail \in BOOLEAN :
        SetTTLByKeyCall(e, ttl, fail)
  \/ \E e \in GetInputs, fail \in BOOLEAN : GetDelete(e, fail)
  \/ \E e \in GetInputs, fail \in BOOLEAN : GetItem(e, fail)
  \/ GetCheck

SpecGet == InitGet /\ [][NextGet]_vars

--------------------------------------------------------------------------
\* store/store.go: Query, called on an entity table with a key condition on
\* id and with the filter, names and values the caller supplies.

\* An attribute of a stored item named in an expression: ttl is absent
\* from an item that has none; version is a number on every item.
AttrExists(item, attr) == IF attr = "ttl" THEN item.ttl # NoTTL ELSE TRUE

AttrValue(item, attr) == IF attr = "ttl" THEN item.ttl ELSE item.version

\* Query, lines 216-230: the store's entries first, then the caller's
\* entries assigned over them.
exprNames(input) == input.ExpressionAttributeNames @@ ("#ttl" :> "ttl")

exprValues(input, t) == input.ExpressionAttributeValues @@ (":now" :> t)

\* Query, lines 211-214: "(caller filter) AND (TTLFilterExpr)", evaluated
\* by the backing store with the merged names and values.
filterExpr(input, t, item) ==
  LET names == exprNames(input)
      values == exprValues(input, t)
      caller == IF input.FilterExpression = "" THEN TRUE
                ELSE AttrValue(item, names["#version"]) >= values[":v"]
      ttlFilter == \/ ~AttrExists(item, names["#ttl"])
                   \/ AttrValue(item, names["#ttl"]) > values[":now"]
  IN caller /\ ttlFilter

\* Query, lines 232-263: every page of the items of the table that match
\* the key condition and pass the filter.
Query(db, input, t) ==
  {item \in db.items :
     /\ item.table = input.TableName
     /\ item.id = exprValues(input, t)[":id"]
     /\ filterExpr(input, t, item)}

\* The caller's inputs: a filter on version or none, with the names and
\* values it needs, and optionally entries for the placeholders #ttl and
\* :now.
QueryInputs ==
  {[TableName |-> "studios",
    KeyConditionExpression |-> "id = :id",
    FilterExpression |-> f,
    ExpressionAttributeNames |->
       n @@ (IF f = "" THEN <<>> ELSE ("#version" :> "version")),
    ExpressionAttributeValues |->
       v @@ (":id" :> id) @@ (IF f = "" THEN <<>> ELSE (":v" :> 1))] :
     f \in {"", "#version >= :v"},
     n \in {<<>>, ("#ttl" :> "version")},
     v \in {<<>>, (":now" :> 0)},
     id \in {"1", "2"}}

QueryCall(input, fail) ==
  /\ IF fail
     THEN rd' = NoRead /\ ret' = "error"
     ELSE /\ rd' = [op |-> "query", input |-> input, t |-> now,
                    result |-> Query(DB, input, now)]
          /\ ret' = "nil"
  /\ UNCHANGED <<now, items, rels, uniq, calls, stream, acked, hnd, hac, qac>>

NextQuery ==
  \/ Tick
  \/ \E e \in {Studio("1", "1", "a"), Studio("2", "1", "")},
        ttl \in 1..MaxTime, fail \in BOOLEAN : SetTTLByKeyCall(e, ttl, fail)
  \/ \E input \in QueryInputs, fail \in BOOLEAN : QueryCall(input, fail)

\* The queries start from the tree of the cascade specification.
SpecQuery == InitCascade /\ [][NextQuery]_vars

--------------------------------------------------------------------------
\* Specification of the versions: the organization exists; the callers
\* create, update and delete one studio below it, and SetTTLByKey is called
\* on the studio with the time of an earlier tombstone.

VersionInputs == {Studio("1", "1", s) : s \in Slugs}

NextVersion ==
  \/ Tick
  \/ \E c \in Callers, e \in VersionInputs : CreateBegin(c, e)
  \/ \E c \in Callers, fail \in BOOLEAN : CreateTx(c, fail)
  \/ \E c \in Callers, e \in VersionInputs, v \in 1..MaxVersion :
        UpdateBegin(c, e, v)
  \/ \E c \in Callers, fail \in BOOLEAN : UpdateGet(c, fail)
  \/ \E c \in Callers, fail \in BOOLEAN : UpdateTx(c, fail)
  \/ \E c \in Callers, e \in VersionInputs : DeleteBegin(c, e, NoOpts)
  \/ \E c \in Callers, fail \in BOOLEAN : DeleteSetTTL(c, fail)
  \/ \E e \in VersionInputs, ttl \in 1..MaxTime, fail \in BOOLEAN :
        ttl < now /\ SetTTLByKeyCall(e, ttl, fail)

SpecVersion == InitSiblings /\ [][NextVersion]_vars

--------------------------------------------------------------------------
\* Specification of the constraint keys: UniqueConstraintPK is applied to
\* two tuples of components drawn from strings with and without the
\* character '#', which references such as "organization#1" contain.

KeyComponents == {"", "a", "a#a"}

KeyTuples ==
  [parentRef : KeyComponents, entityType : KeyComponents,
   field : KeyComponents, value : KeyComponents]

KeyOfTuple(t) == UniqueConstraintPK(t.parentRef, t.entityType, t.field, t.value)

KeyCall(t1, t2) ==
  /\ rd = NoRead
  /\ rd' = [op |-> "key", t1 |-> t1, t2 |-> t2,
            pk1 |-> KeyOfTuple(t1), pk1again |-> KeyOfTuple(t1),
            pk2 |-> KeyOfTuple(t2)]
  /\ ret' = NoRet
  /\ UNCHANGED <<now, items, rels, uniq, calls, stream, acked, hnd, hac, qac>>

NextKey == \E t1 \in KeyTuples, t2 \in KeyTuples : KeyCall(t1, t2)

SpecKey == Init /\ [][NextKey]_vars

--------------------------------------------------------------------------
\* Specification of studios under two parents: two organizations exist (as
\* Create stored them at time 1), and the callers create a studio below
\* each, with unique values and organization ids that are arbitrary
\* strings (Create accepts any id and any value).

ParentsInputs ==
  {Studio("1", "1", v) : v \in {"y", "x#studio#slug#y"}}
    \cup {Studio("2", "1#studio#slug#x", v) : v \in {"y", "x#studio#slug#y"}}

ParentsTree ==
  Create(Create(EmptyDB, Organization("1", "x"), 1, FALSE).db,
         Organization("1#studio#slug#x", "y"), 1, FALSE).db

InitParents ==
  /\ now = 1
  /\ items = ParentsTree.items
  /\ rels = ParentsTree.rels
  /\ uniq = ParentsTree.uniq
  /\ calls = [c \in Callers |-> Idle]
  /\ ret = NoRet
  /\ stream = {}
  /\ acked = {}
  /\ hnd = HndIdle
  /\ hac = HacIdle
  /\ qac = QacIdle
  /\ rd = NoRead

NextParents ==
  \/ \E c \in Callers, e \in ParentsInputs : CreateBegin(c, e)
  \/ \E c \in Callers, fail \in BOOLEAN : CreateTx(c, fail)

SpecParents == InitParents /\ [][NextParents]_vars

--------------------------------------------------------------------------
\* Specification of the partition keys: RelationshipPK is applied to
\* references (the empty string included) and shard counts around 1.

ShardRefs == {"", "organization#1", "studio#1", "studio#2", "title#1"}

ShardCounts == (-2)..2

RelationshipPKCall(parentRef, childRef, numShards) ==
  /\ rd = NoRead
  /\ rd' = [op |-> "shard", parentRef |-> parentRef, childRef |-> childRef,
            numShards |-> numShards,
            pk |-> RelationshipPK(parentRef, childRef, numShards)]
  /\ ret' = NoRet
  /\ UNCHANGED <<now, items, rels, uniq, calls, stream, acked, hnd, hac, qac>>

NextShardKey ==
  \E parentRef \in ShardRefs, childRef \in ShardRefs, numShards \in ShardCounts :
     RelationshipPKCall(parentRef, childRef, numShards)

SpecShardKey == Init /\ [][NextShardKey]_vars

--------------------------------------------------------------------------
\* store/config.go and store.go New: the configuration a Store is built with

MaxNumShards == 256

\* A validate without the upper bound.
validate_NoMax(c) ==
  [RelationshipTable |-> IF c.RelationshipTable = "" THEN "trellis_relationships"
                         ELSE c.RelationshipTable,
   UniqueTable |-> IF c.UniqueTable = "" THEN "trellis_unique_constraints"
                   ELSE c.UniqueTable,
   NumShards |-> IF c.NumShards < 1 THEN 1 ELSE c.NumShards]

\* Config.validate: the four tests in the order of the code.
validate(c) ==
  LET c1 == IF c.RelationshipTable = ""
            THEN [c EXCEPT !.RelationshipTable = "trellis_relationships"] ELSE c
      c2 == IF c1.UniqueTable = ""
            THEN [c1 EXCEPT !.UniqueTable = "trellis_unique_constraints"] ELSE c1
      c3 == IF c2.NumShards < 1 THEN [c2 EXCEPT !.NumShards = 1] ELSE c2
  IN IF c3.NumShards > MaxNumShards
     THEN [c3 EXCEPT !.NumShards = MaxNumShards] ELSE c3

\* The configurations a caller passes: table names empty or not, shard
\* counts around both ends of the range and inside it.
Configs ==
  [RelationshipTable : {"", "custom_rels"},
   UniqueTable : {"", "custom_unique"},
   NumShards : ((-5)..5) \cup {16, 500} \cup (250..262)]

\* New(client, config): validate, then the Store holds the configuration.
New(config) ==
  /\ rd = NoRead
  /\ rd' = [op |-> "new", input |-> config, config |-> validate(config)]
  /\ ret' = NoRet
  /\ UNCHANGED <<now, items, rels, uniq, calls, stream, acked, hnd, hac, qac>>

NextNew == \E config \in Configs : New(config)

SpecNew == Init /\ [][NextNew]_vars

--------------------------------------------------------------------------
\* Specification of a released slug: the organization and studio 1 with
\* slug "a" exist (as Create stored them at time 1); the callers update
\* studio 1 to other slugs with any expected version up to MaxVersion, and
\* create studio 2 with the slug studio 1 started with.

HolderTree ==
  Create(Create(EmptyDB, Organization("1", "x"), 1, FALSE).db,
         Studio("1", "1", "a"), 1, FALSE).db

HolderUpdates == {Studio("1", "1", s) : s \in {"b", "c"}}
HolderCreates == {Studio("2", "1", "a")}

InitHolder ==
  /\ now = 1
  /\ items = HolderTree.items
  /\ rels = HolderTree.rels
  /\ uniq = HolderTree.uniq
  /\ calls = [c \in Callers |-> Idle]
  /\ ret = NoRet
  /\ stream = {}
  /\ acked = {}
  /\ hnd = HndIdle
  /\ hac = HacIdle
  /\ qac = QacIdle
  /\ rd = NoRead

NextHolder ==
  \/ \E c \in Callers, e \in HolderCreates : CreateBegin(c, e)
  \/ \E c \in Callers : CreateTx(c, FALSE)
  \/ \E c \in Callers, e \in HolderUpdates, v \in 1..MaxVersion :
        UpdateBegin(c, e, v)
  \/ \E c \in Callers : UpdateGet(c, FALSE)
  \/ \E c \in Callers : UpdateTx(c, FALSE)

SpecHolder == InitHolder /\ [][NextHolder]_vars

--------------------------------------------------------------------------
\* Specification of the errors of Update: the organization and two studios
\* with the slugs "a" and "" exist (as Create stored them at time 1); the
\* callers update and delete the studios with any expected version up to
\* MaxVersion; a transaction commits, is cancelled on its conditions, is
\* cancelled by the backing store on a conflict, or fails with another
\* error.

UpdateErrorsTree ==
  Create(Create(Create(EmptyDB, Organization("1", "x"), 1, FALSE).db,
                Studio("1", "1", "a"), 1, FALSE).db,
         Studio("2", "1", ""), 1, FALSE).db

\* The updates: each studio to the slug of the other or to the free "b".
UpdateErrorsInputs ==
  {Studio("1", "1", s) : s \in {"", "b"}} \cup
  {Studio("2", "1", s) : s \in {"a", "b"}}

\* TransactWriteItems cancelled with a TransactionConflict reason for every
\* item: no condition was evaluated and nothing is written.
TransactionConflict(db, txitems) ==
  [err |-> "TransactionCanceled",
   reasons |-> [i \in 1..Len(txitems) |-> "TransactionConflict"],
   db |-> db]

\* updateWithUniqueConstraints, lines 474-479, when the transaction meets a
\* conflicting transaction.
UpdateTxConflict(c) ==
  /\ calls[c].pc = "update_tx"
  /\ ChangedFields(calls[c].ent, calls[c].oldUniques) # {}
  /\ LET r == TransactionConflict(DB, UpdateItems(calls[c].ent,
                                    calls[c].oldUniques, calls[c].exp, now))
     IN Returns(c, mapUpdateTransactionError(r))
  /\ UNCHANGED <<now, items, rels, uniq, stream, acked, hnd, hac, qac, rd>>

InitUpdateErrors ==
  /\ now = 1
  /\ items = UpdateErrorsTree.items
  /\ rels = UpdateErrorsTree.rels
  /\ uniq = UpdateErrorsTree.uniq
  /\ calls = [c \in Callers |-> Idle]
  /\ ret = NoRet
  /\ stream = {}
  /\ acked = {}
  /\ hnd = HndIdle
  /\ hac = HacIdle
  /\ qac = QacIdle
  /\ rd = NoRead

NextUpdateErrors ==
  \/ \E c \in Callers, e \in UpdateErrorsInputs, v \in 1..MaxVersion :
        UpdateBegin(c, e, v)
  \/ \E c \in Callers : UpdateGet(c, FALSE)
  \/ \E c \in Callers, fail \in BOOLEAN : UpdateTx(c, fail)
  \/ \E c \in Callers : UpdateTxConflict(c)
  \/ \E c \in Callers, e \in UpdateErrorsInputs :
        DeleteBegin(c, e, [Cascade |-> TRUE, OrphanProtect |-> FALSE])
  \/ \E c \in Callers : DeleteSetTTL(c, FALSE)

SpecUpdateErrors == InitUpdateErrors /\ [][NextUpdateErrors]_vars

--------------------------------------------------------------------------
\* Specification of the errors of Create: from the empty tables the callers
\* create one organization and studios below it, two of them with the same
\* slug and one under two slugs, and delete the organization; a transaction commits, is cancelled on its
\* conditions, is cancelled by the backing store on a conflict, or fails
\* with another error.

CreateErrorsInputs ==
  {Organization("1", "x"), Studio("1", "1", "a"), Studio("1", "1", "b"),
   Studio("2", "1", "a")}

\* Create, lines 179-183, when the transaction meets a conflicting
\* transaction.
CreateTxConflict(c) ==
  /\ calls[c].pc = "create_tx"
  /\ LET ci == CreateItems(calls[c].ent, calls[c].t)
         r == TransactionConflict(DB, ci.items)
     IN Returns(c, mapCreateTransactionError(r, ci.parentCheckIndex,
                                             ci.entityPutIndex))
  /\ UNCHANGED <<now, items, rels, uniq, stream, acked, hnd, hac, qac, rd>>

NextCreateErrors ==
  \/ \E c \in Callers, e \in CreateErrorsInputs : CreateBegin(c, e)
  \/ \E c \in Callers, fail \in BOOLEAN : CreateTx(c, fail)
  \/ \E c \in Callers : CreateTxConflict(c)
  \/ \E c \in Callers :
        DeleteBegin(c, Organization("1", "x"),
                    [Cascade |-> TRUE, OrphanProtect |-> FALSE])
  \/ \E c \in Callers : DeleteSetTTL(c, FALSE)

SpecCreateErrors == Init /\ [][NextCreateErrors]_vars

--------------------------------------------------------------------------
\* Specification of a batch: the organization and studio 1 of the tree have
\* been deleted at time 1; HandleCascadeDelete is invoked once with an event
\* of up to BatchLen records drawn from the organization's INSERT record and
\* the two tombstone records, and runs processRecord on them; store calls of
\* the handler fail.

BatchLen == 2

\* The items SetTTL tombstoned at time 1 and their change records.
BatchDeleted ==
  {it \in CascadeTree.items : it.entity_ref \in {"organization#1", "studio#1"}}

BatchTombstone(it) == [it EXCEPT !.ttl = 1, !.version = it.version + 1]

BatchItems ==
  (CascadeTree.items \ BatchDeleted) \cup {BatchTombstone(it) : it \in BatchDeleted}

BatchRecords ==
  {[EventName |-> "MODIFY", OldImage |-> it, NewImage |-> BatchTombstone(it)] :
     it \in BatchDeleted}
  \cup {[EventName |-> "INSERT", OldImage |-> NoRec, NewImage |-> it] :
          it \in {i \in CascadeTree.items : i.entity_ref = "organization#1"}}

BatchEvents ==
  UNION {[1..n -> BatchRecords] : n \in 0..BatchLen}

\* The locals of HandleCascadeDelete: the records of the event, the index of
\* the loop, whether processRecord is running on that record, the indices
\* processRecord was called on and those it returned an error for, and the
\* value returned ("-" while the invocation runs).
HandleCascadeDelete(event) ==
  /\ rd = NoRead
  /\ hnd.pc = "idle"
  /\ rd' = [op |-> "batch", Records |-> event, k |-> 1, running |-> FALSE,
            processed |-> <<>>, errors |-> {}, result |-> "-"]
  /\ ret' = NoRet
  /\ UNCHANGED <<now, items, rels, uniq, calls, stream, acked, hnd, hac, qac>>

\* HandleCascadeDelete, lines 34-35, and processRecord, lines 48-61: the
\* next record of the loop; a record that does not propagate returns nil.
BatchProcessRecord ==
  /\ rd.op = "batch" /\ rd.result = "-" /\ ~rd.running
  /\ hnd.pc = "idle"
  /\ rd.k <= Len(rd.Records)
  /\ LET record == rd.Records[rd.k]
     IN IF Propagates(record)
        THEN /\ hnd' = [hnd EXCEPT !.pc = "query", !.record = record]
             /\ rd' = [rd EXCEPT !.running = TRUE,
                                 !.processed = Append(rd.processed, rd.k)]
             /\ UNCHANGED acked
        ELSE /\ rd' = [rd EXCEPT !.k = rd.k + 1,
                                 !.processed = Append(rd.processed, rd.k)]
             /\ acked' = acked \cup {record}
             /\ UNCHANGED hnd
  /\ ret' = NoRet
  /\ UNCHANGED <<now, items, rels, uniq, calls, stream, hac, qac>>

\* A loop that logs the error of processRecord and goes on.
BatchQueryFails_Continue ==
  /\ rd.op = "batch" /\ rd.running
  /\ hnd.pc = "query"
  /\ hnd.fails < MaxFailures
  /\ hnd' = [HndIdle EXCEPT !.fails = hnd.fails + 1]
  /\ rd' = [rd EXCEPT !.errors = rd.errors \cup {rd.k}]
  /\ ret' = NoRet
  /\ UNCHANGED <<now, items, rels, uniq, calls, stream, acked, hac, qac>>

\* processRecord, lines 73-76, and HandleCascadeDelete, lines 35-41: a
\* failed QueryAllChildren is the error of processRecord, which the loop
\* returns.
BatchQueryFails ==
  /\ rd.op = "batch" /\ rd.running
  /\ hnd.pc = "query"
  /\ hnd.fails < MaxFailures
  /\ hnd' = [HndIdle EXCEPT !.fails = hnd.fails + 1]
  /\ rd' = [rd EXCEPT !.running = FALSE, !.errors = rd.errors \cup {rd.k},
                      !.result = "error"]
  /\ ret' = "error"
  /\ UNCHANGED <<now, items, rels, uniq, calls, stream, acked, hac, qac>>

\* HandleCascadeDelete, line 34: processRecord returned nil, the loop goes
\* to the next record.
BatchRecordDone ==
  /\ rd.op = "batch" /\ rd.result = "-" /\ rd.running
  /\ hnd.pc = "idle"
  /\ rd' = [rd EXCEPT !.running = FALSE, !.k = rd.k + 1]
  /\ ret' = NoRet
  /\ UNCHANGED <<now, items, rels, uniq, calls, stream, acked, hnd, hac, qac>>

\* HandleCascadeDelete, line 45: return nil after the last record.
BatchReturn ==
  /\ rd.op = "batch" /\ rd.result = "-" /\ ~rd.running
  /\ rd.k > Len(rd.Records)
  /\ rd' = [rd EXCEPT !.result = "nil"]
  /\ ret' = "nil"
  /\ UNCHANGED <<now, items, rels, uniq, calls, stream, acked, hnd, hac, qac>>

InitBatch ==
  /\ now = 1
  /\ items = BatchItems
  /\ rels = CascadeTree.rels
  /\ uniq = CascadeTree.uniq
  /\ calls = [c \in Callers |-> Idle]
  /\ ret = NoRet
  /\ stream = BatchRecords
  /\ acked = {}
  /\ hnd = HndIdle
  /\ hac = HacIdle
  /\ qac = QacIdle
  /\ rd = NoRead

NextBatch ==
  \/ \E event \in BatchEvents : HandleCascadeDelete(event)
  \/ BatchProcessRecord
  \/ BatchQueryFails
  \/ HndQuery(FALSE)
  \/ \E fail \in BOOLEAN : HndSetChild(fail)
  \/ \E fail \in BOOLEAN : HndSetRel(fail)
  \/ \E fail \in BOOLEAN : HndSetUniq(fail)
  \/ BatchRecordDone
  \/ BatchReturn

SpecBatch == InitBatch /\ [][NextBatch]_vars

--------------------------------------------------------------------------
\* Specification of the writers of the three tables: the organization and
\* studio 1 exist (as Create stored them at time 1); a caller creates
\* studio 2, updates the organization and studio 1 and deletes them under
\* every option, and the handler is invoked with the change events.

WritersCreates == {Studio("2", "1", "b")}
WritersUpdates == {Organization("1", "y"), Studio("1", "1", "b")}
WritersDeletes == {Organization("1", "x"), Studio("1", "1", "a")}

NextWriters ==
  \/ \E e \in WritersCreates : CreateBegin(ReclaimCaller, e)
  \/ CreateTx(ReclaimCaller, FALSE)
  \/ \E e \in WritersUpdates, v \in 1..MaxVersion :
        UpdateBegin(ReclaimCaller, e, v)
  \/ UpdateSimple(ReclaimCaller, FALSE)
  \/ UpdateGet(ReclaimCaller, FALSE)
  \/ UpdateTx(ReclaimCaller, FALSE)
  \/ \E e \in WritersDeletes, o \in DeleteOptions :
        DeleteBegin(ReclaimCaller, e, o)
  \/ \E fail \in BOOLEAN : DeleteProbe(ReclaimCaller, fail)
  \/ \E fail \in BOOLEAN : DeleteSetTTL(ReclaimCaller, fail)
  \/ \E record \in stream : HandlerBegin(record)
  \/ HndQuery(FALSE)
  \/ HndSetChild(FALSE)
  \/ HndSetRel(FALSE)
  \/ HndSetUniq(FALSE)

SpecWriters == InitHolder /\ [][NextWriters]_vars

--------------------------------------------------------------------------
\* Specification of updates around a tombstone: as the specification of a
\* released slug, and the callers delete the two studios.

TombstoneDeletes == {Studio("1", "1", "a"), Studio("2", "1", "a")}

NextTombstone ==
  \/ NextHolder
  \/ \E c \in Callers, e \in TombstoneDeletes :
        DeleteBegin(c, e, [Cascade |-> TRUE, OrphanProtect |-> FALSE])
  \/ \E c \in Callers : DeleteSetTTL(c, FALSE)

SpecTombstone == InitHolder /\ [][NextTombstone]_vars

--------------------------------------------------------------------------
\* Specification of the scanned partitions: for a shard count a validated
\* configuration can hold, the key Create and SetRelationshipTTL derive for
\* an edge and the keys HasActiveChildren and QueryAllChildren query.

ScanCounts == {1, 2, 3, 16, 255, MaxNumShards}

\* The child references whose bytes the model holds.
ScanChildren == {"", "studio#1", "studio#2", "title#1"}

\* HasActiveChildren, lines 539-568, and QueryAllChildren, lines 644-665:
\* the partition keys of the single-shard path and of the fan-out.
ShardKeys(ref, numShards) ==
  LET n == IF numShards < 1 THEN 1 ELSE numShards
  IN IF n = 1 THEN {ref \o "#00"}
     ELSE {ref \o "#" \o Hex2(shardNum) : shardNum \in 0..(n - 1)}

ScanCall(parentRef, childRef, numShards) ==
  /\ rd = NoRead
  /\ rd' = [op |-> "scan", parentRef |-> parentRef, childRef |-> childRef,
            numShards |-> numShards,
            createPK |-> RelationshipPK(parentRef, childRef, numShards),
            ttlPK |-> RelationshipPK(parentRef, childRef, numShards),
            scanned |-> ShardKeys(parentRef, numShards)]
  /\ ret' = NoRet
  /\ UNCHANGED <<now, items, rels, uniq, calls, stream, acked, hnd, hac, qac>>

NextScan ==
  \E parentRef \in ShardRefs, childRef \in ScanChildren, numShards \in ScanCounts :
     ScanCall(parentRef, childRef, numShards)

SpecScan == Init /\ [][NextScan]_vars

--------------------------------------------------------------------------
\* Specification of the simple update: the organization exists (as Create
\* stored it at time 1); the callers update it with items that hold user
\* and managed attributes and any expected version up to MaxVersion, and
\* delete it; the clock advances.

\* updateSimple, lines 304-306: the attributes the loop skips.
ManagedFields ==
  {"id", "entity_ref", "parent_ref", "version", "created_at", "updated_at",
   "ttl", "_unique_pks"}

\* A loop that lets the caller's ttl through.
UserAttributes_WithTTL(item) ==
  [k \in DOMAIN item \ (ManagedFields \ {"ttl"}) |-> item[k]]

\* updateSimple, lines 302-314: the supplied attributes that get a SET
\* clause.
UserAttributes(item) == [k \in DOMAIN item \ ManagedFields |-> item[k]]

\* UpdateItem "SET <attrs>, #updated_at = :updated_at, #version = #version
\* + :one" on a stored item: a clause on the key attribute or a second
\* clause on updated_at or version is a validation error.
UpdateItemSet(old, attrs, t) ==
  LET get(name, cur) == IF name \in DOMAIN attrs THEN attrs[name] ELSE cur
      user == DOMAIN attrs \ ManagedFields
  IN IF DOMAIN attrs \cap {"id", "version", "updated_at"} # {}
     THEN [err |-> "ValidationException", item |-> old]
     ELSE [err |-> "nil",
           item |-> [old EXCEPT
                       !.payload = [f \in DOMAIN old.payload \cup user |->
                                      IF f \in user THEN attrs[f]
                                      ELSE old.payload[f]],
                       !.entity_ref = get("entity_ref", @),
                       !.parent_ref = get("parent_ref", @),
                       !.created_at = get("created_at", @),
                       !.ttl = get("ttl", @),
                       !.unique_pks = get("_unique_pks", @),
                       !.updated_at = t,
                       !.version = @ + 1]]

\* updateSimple with the item map of the caller.
updateSimpleItem(db, e, item, expectedVersion, t, fail) ==
  LET old == Lookup(db, "entity", <<TableName(e), GetKey(e)>>)
      r == UpdateItemSet(old, UserAttributes(item), t)
  IN IF fail THEN [err |-> "error", db |-> db]
     ELSE IF ~EvalCond(VersionGuard(expectedVersion), old)
     THEN [err |-> "ErrConcurrentModification", db |-> db]
     ELSE IF r.err # "nil" THEN [err |-> r.err, db |-> db]
     ELSE [err |-> "nil",
           db |-> [db EXCEPT !.items = (db.items \ {old}) \cup {r.item}]]

\* The item maps of the callers: a user attribute alone, with every managed
\* attribute, and the managed attributes alone.
UpdateSimpleManaged ==
  [id |-> "9", entity_ref |-> "organization#9", parent_ref |-> "studio#1",
   version |-> 7, created_at |-> 0, updated_at |-> 0, ttl |-> 1,
   _unique_pks |-> {"k"}]

UpdateSimpleItems ==
  {[name |-> "y"],
   [f \in {"name"} \cup DOMAIN UpdateSimpleManaged |->
      IF f = "name" THEN "z" ELSE UpdateSimpleManaged[f]],
   UpdateSimpleManaged}

\* updateSimple called from Update with the caller's item map; the map is
\* kept for the properties.
UpdateSimpleItem(c, item, fail) ==
  /\ calls[c].pc = "update_simple"
  /\ LET r == updateSimpleItem(DB, calls[c].ent, item, calls[c].exp, now, fail)
     IN SetDB(r.db) /\ Returns(c, r.err)
  /\ rd' = [op |-> "update", item |-> item]
  /\ UNCHANGED <<now, stream, acked, hnd, hac, qac>>

NextUpdateSimple ==
  \/ Tick
  \/ \E c \in Callers, v \in 1..MaxVersion :
        UpdateBegin(c, Organization("1", "x"), v)
  \/ \E c \in Callers, item \in UpdateSimpleItems, fail \in BOOLEAN :
        UpdateSimpleItem(c, item, fail)
  \/ \E c \in Callers :
        DeleteBegin(c, Organization("1", "x"),
                    [Cascade |-> TRUE, OrphanProtect |-> FALSE])
  \/ \E c \in Callers : DeleteSetTTL(c, FALSE)

SpecUpdateSimple == InitSiblings /\ [][NextUpdateSimple]_vars

--------------------------------------------------------------------------
\* Specification of the parent scope of uniqueness: the organization and
\* studio 1 with slug "a" exist; the callers create two labels (roots with
\* unique fields) with the same slug, update a label and the studio with the
\* stored and with another slug under any expected version up to
\* MaxVersion, and delete them.

ScopeCreates == {Label("1", "a"), Label("2", "a")}
ScopeUpdates ==
  {Label("1", "a"), Label("1", "b"), Studio("1", "1", "a"), Studio("1", "1", "b")}
ScopeDeletes == {Label("1", "a"), Studio("1", "1", "a")}

NextScope ==
  \/ \E c \in Callers, e \in ScopeCreates : CreateBegin(c, e)
  \/ \E c \in Callers : CreateTx(c, FALSE)
  \/ \E c \in Callers, e \in ScopeUpdates, v \in 1..MaxVersion :
        UpdateBegin(c, e, v)
  \/ \E c \in Callers : UpdateSimple(c, FALSE)
  \/ \E c \in Callers : UpdateGet(c, FALSE)
  \/ \E c \in Callers : UpdateTx(c, FALSE)
  \/ \E c \in Callers, e \in ScopeDeletes :
        DeleteBegin(c, e, [Cascade |-> TRUE, OrphanProtect |-> FALSE])
  \/ \E c \in Callers : DeleteSetTTL(c, FALSE)

SpecScope == InitHolder /\ [][NextScope]_vars

--------------------------------------------------------------------------
\* Specification of the fan-out calls: one HasActiveChildren call or one
\* QueryAllChildren call over HacShards shards, from the initial states of
\* the probe. In the fair specification every goroutine that can take its
\* next step takes it in the end (the scheduler runs every runnable
\* goroutine) and every query of the backing store returns.

NextFanOut ==
  \/ qac.pc = "idle" /\ NextHAC
  \/ hac.pc = "idle" /\ NextQAC

SpecFanOut == InitHAC /\ [][NextFanOut]_vars

FanOutFairness ==
  /\ \A s \in HacTasks :
        /\ WF_vars(HacTaskStart(s))
        /\ WF_vars(\E outcome \in {"nil", "error", "context.Canceled"} :
                      HacTaskQuery(s, outcome))
        /\ WF_vars(HacTaskSend(s))
        /\ WF_vars(\E fail \in BOOLEAN : QacTaskScan(s, fail))
        /\ WF_vars(QacTaskSend(s))
        /\ WF_vars(QacTaskAppend(s))
  /\ WF_vars(HacCloseFound)
  /\ WF_vars(HacCloseErrs)
  /\ WF_vars(HacSelectFound \/ HacSelectErrs)
  /\ WF_vars(HacDrain)
  /\ WF_vars(QacClose)
  /\ WF_vars(QacRange)

SpecFanOutFair == SpecFanOut /\ FanOutFairness

--------------------------------------------------------------------------
\* Vocabulary of the properties

DBNext == [items |-> items', rels |-> rels', uniq |-> uniq']

StoredItem(db, e) == Lookup(db, "entity", <<TableName(e), GetKey(e)>>)

EdgesOf(db, childRef, parentRef) ==
  {r \in db.rels : r.child_ref = childRef /\ r.parent_ref = parentRef}

HeldBy(db, entityRef) == {u \in db.uniq : u.entity_ref = entityRef}

DBUnchanged == items' = items /\ rels' = rels /\ uniq' = uniq

\* Caller c takes the step that ends its call from position pc.
ReturnsFrom(c, pc) == calls[c].pc = pc /\ calls'[c].pc = "idle"

\* An item is tombstoned at time t when it carries a TTL that is not in the
\* future.
Tombstoned(it, t) == it # NoRec /\ it.ttl # NoTTL /\ it.ttl <= t

--------------------------------------------------------------------------
\* C1: Create is all-or-nothing. Every step that ends a Create either
\* returns nil and writes the entity item, its relationship edge (when it
\* has a parent reference) and one constraint record per unique field, or
\* returns an error and leaves the three tables unchanged; and in every
\* state each entity item has its edge and its reservations, and each edge
\* and each reservation has its entity item.

C1_Complete(db) ==
  /\ \A it \in db.items :
       /\ it.parent_ref # "" =>
            \E r \in EdgesOf(db, it.entity_ref, it.parent_ref) :
               r.child_table = it.table /\ r.child_key = it.id
       /\ \A k \in it.unique_pks :
            \E u \in HeldBy(db, it.entity_ref) : u.pk = k
  /\ \A r \in db.rels :
       \E it \in db.items :
          it.entity_ref = r.child_ref /\ it.parent_ref = r.parent_ref
  /\ \A u \in db.uniq :
       \E it \in db.items : it.entity_ref = u.entity_ref

C1_CreateStep(c) ==
  LET e == calls[c].ent
      new == StoredItem(DBNext, e)
  IN ReturnsFrom(c, "create_tx") =>
       IF ret' = "nil"
       THEN /\ StoredItem(DB, e) = NoRec
            /\ new # NoRec
            /\ new.version = 1
            /\ IsParentChecker(e) =>
                 /\ EdgesOf(DBNext, EntityRef(e), ParentRef(e)) # {}
                 /\ EdgesOf(DB, EntityRef(e), ParentRef(e)) = {}
                 /\ Cardinality(HeldBy(DBNext, EntityRef(e)) \ HeldBy(DB, EntityRef(e)))
                      = Cardinality(DOMAIN UniqueFields(e))
       ELSE DBUnchanged

C1_CreateAllOrNothing ==
  /\ []C1_Complete(DB)
  /\ [][\A c \in Callers : C1_CreateStep(c)]_vars

C1_Witness ==
  /\ ret = "nil"
  /\ \E it \in items :
       /\ it.parent_ref # ""
       /\ it.version = 1
       /\ EdgesOf(DB, it.entity_ref, it.parent_ref) # {}
       /\ HeldBy(DB, it.entity_ref) # {}

--------------------------------------------------------------------------
\* C3: a Create with a parent check commits only if the parent item exists
\* and is not tombstoned when the transaction commits; when the parent is
\* absent or tombstoned at that moment Create returns ErrParentNotFound and
\* writes nothing (a request the backing store rejected outright returns
\* that error instead).

ParentItem(db, e) ==
  Lookup(db, "entity", <<ParentCheck(e).TableName, ParentCheck(e).Key>>)

C3_CreateStep(c) ==
  LET e == calls[c].ent
      parent == ParentItem(DB, e)
  IN (ReturnsFrom(c, "create_tx") /\ IsParentChecker(e)) =>
       /\ ret' = "nil" => (parent # NoRec /\ ~Tombstoned(parent, now))
       /\ (parent = NoRec \/ Tombstoned(parent, now)) =>
            /\ ret' \in {"ErrParentNotFound", "error"}
            /\ DBUnchanged

C3_ParentCheckedAtCommit == [][\A c \in Callers : C3_CreateStep(c)]_vars

--------------------------------------------------------------------------
\* C4: no lost concurrent updates. An Update commits only on the version it
\* expects and leaves version expectedVersion + 1 with exactly its own
\* attributes; stored versions never decrease and items never disappear, so
\* of the Updates that carry one expectedVersion at most one commits.

C4_UpdateStep(c) ==
  LET e == calls[c].ent
      old == StoredItem(DB, e)
      new == StoredItem(DBNext, e)
  IN ((ReturnsFrom(c, "update_simple") \/ ReturnsFrom(c, "update_tx"))
        /\ ret' = "nil") =>
       /\ old # NoRec
       /\ old.version = calls[c].exp
       /\ new.version = calls[c].exp + 1
       /\ new.payload = e.payload

C4_VersionsGrow ==
  \A it \in items :
     \E it2 \in items' :
        /\ KeyOf("entity", it2) = KeyOf("entity", it)
        /\ it2.version >= it.version
        /\ (it2.version = it.version => it2 = it)

C4_NoLostUpdate ==
  [][C4_VersionsGrow /\ \A c \in Callers : C4_UpdateStep(c)]_vars

\* Two Updates of one entity with one expectedVersion are in flight together
\* and one of them has just committed.
C4_Witness ==
  \E c \in Callers, d \in Callers :
     /\ c # d
     /\ ret = "nil"
     /\ calls[c].pc = "idle"
     /\ calls[d].pc \in {"update_simple", "update_tx"}
     /\ StoredItem(DB, calls[d].ent) # NoRec
     /\ StoredItem(DB, calls[d].ent).version = calls[d].exp + 1
     /\ StoredItem(DB, calls[d].ent).ttl = NoTTL

--------------------------------------------------------------------------
\* C5: an Update of a stored, not tombstoned entity whose expectedVersion
\* differs from the stored version fails with ErrConcurrentModification and
\* changes nothing (a request the backing store rejected outright returns
\* that error instead).

C5_UpdateStep(c) ==
  LET e == calls[c].ent
      old == StoredItem(DB, e)
  IN ((ReturnsFrom(c, "update_simple") \/ ReturnsFrom(c, "update_get")
         \/ ReturnsFrom(c, "update_tx"))
        /\ old # NoRec /\ old.ttl = NoTTL /\ old.version # calls[c].exp) =>
       /\ ret' \in {"ErrConcurrentModification", "error"}
       /\ DBUnchanged

C5_StaleUpdateFails == [][\A c \in Callers : C5_UpdateStep(c)]_vars

--------------------------------------------------------------------------
\* C8: orphan protection. A Delete with OrphanProtect and without Cascade
\* never sets the TTL of an entity that has an active child at that moment.

ActiveChildren(db, entityRef, t) ==
  {it \in db.items : it.parent_ref = entityRef /\ ~Tombstoned(it, t)}

C8_DeleteStep(c) ==
  LET e == calls[c].ent
      old == StoredItem(DB, e)
      new == StoredItem(DBNext, e)
  IN (ReturnsFrom(c, "delete_ttl")
        /\ calls[c].opts.OrphanProtect /\ ~calls[c].opts.Cascade
        /\ old # NoRec /\ new.ttl # old.ttl) =>
       ActiveChildren(DB, EntityRef(e), now) = {}

C8_OrphanProtection == [][\A c \in Callers : C8_DeleteStep(c)]_vars

--------------------------------------------------------------------------
\* C2: no two active entities of one type under one parent hold the same
\* value of a unique field, in every state reached by interleaved Create,
\* Update and Delete calls.

Active(it, t) == ~Tombstoned(it, t)

C2_UniqueAmongSiblings ==
  \A i1 \in items, i2 \in items :
     (/\ i1 # i2
      /\ i1.table = "studios" /\ i2.table = "studios"
      /\ i1.parent_ref = i2.parent_ref
      /\ Active(i1, now) /\ Active(i2, now)) =>
       i1.payload["slug"] # i2.payload["slug"]

--------------------------------------------------------------------------
\* C6: once the organization is tombstoned, eventually every entity below
\* it is tombstoned and every relationship edge and every constraint record
\* has its TTL set, when unacknowledged events keep being delivered and at
\* most MaxFailures store calls of the handler fail.

SubtreeDeleted ==
  /\ \A it \in items : it.ttl # NoTTL
  /\ \A r \in rels : r.ttl # NoTTL
  /\ \A u \in uniq : u.ttl # NoTTL

C6_EventualSubtreeDeletion ==
  (\E it \in items : it.table = "organizations" /\ it.ttl # NoTTL)
     ~> SubtreeDeleted

\* C7: the handler is idempotent. A complete handling of a delivered record
\* is a fixed point; every write of the handler is absorbed by a complete
\* handling of its record; the handler overwrites no TTL, increments a
\* version only together with setting the TTL, and creates no record.

Keys(db, kind) == {KeyOf(kind, r) : r \in Table(db, kind)}

HandlerWrites ==
  /\ hnd.pc \in {"children", "rel", "uniq"}
  /\ hnd' # hnd
  /\ hnd'.fails = hnd.fails

C7_HandlerStep ==
  HandlerWrites =>
    /\ \A kind \in {"entity", "rel", "uniq"} :
          /\ Keys(DBNext, kind) = Keys(DB, kind)
          /\ \A r \in Table(DB, kind) :
                r.ttl # NoTTL => r \in Table(DBNext, kind)
    /\ \A it \in items : it \notin items' =>
          [it EXCEPT !.ttl = hnd.record.NewImage.ttl,
                     !.version = it.version + 1] \in items'
    /\ processRecord(DBNext, hnd.record) = processRecord(DB, hnd.record)

--------------------------------------------------------------------------
\* C9: when no shard holds an active edge of the parent and no shard query
\* fails, a returned HasActiveChildren call has returned (false, nil).

C9_NoActiveEdgeReturnsFalse ==
  (/\ hac.pc = "done"
   /\ ~hac.failed
   /\ \A r \in rels : r.parent_ref = hac.ref => ~TTLFilterExpr(r, hac.t))
    => hac.result = [ok |-> FALSE, err |-> "nil"]

\* C10: when a shard task has reported an active edge and no query has
\* failed for a reason other than cancellation, a returned call has
\* returned (true, nil).

C10_HitReturnsTrue ==
  (hac.pc = "done" /\ hac.hit /\ ~hac.failed)
    => hac.result = [ok |-> TRUE, err |-> "nil"]

--------------------------------------------------------------------------
\* C11: a QueryAllChildren call that returns without error returns every
\* edge of the parent, tombstoned or not, exactly once, and reads the list
\* when every shard task is done; when a shard scan has failed the call
\* returns an error and no list.

ParentEdges(db, parentRef) == {r \in db.rels : r.parent_ref = parentRef}

Refs(children) == {children[i].Ref : i \in 1..Len(children)}

C11_Returned ==
  qac.pc = "done" =>
    /\ qac.failed <=> qac.result.err # "nil"
    /\ qac.result.err # "nil" => qac.result.children = <<>>
    /\ qac.result.err = "nil" =>
         /\ Len(qac.result.children) = Cardinality(ParentEdges(DB, qac.ref))
         /\ Refs(qac.result.children)
              = {r.child_ref : r \in ParentEdges(DB, qac.ref)}

C11_ReadAfterJoin ==
  (qac.pc = "range" /\ qac'.pc = "done" /\ qac'.result.err = "nil")
    => \A s \in DOMAIN qac.task : qac.task[s] = "done"

C11_QueryAllChildren == []C11_Returned /\ [][C11_ReadAfterJoin]_vars

\* Both studios have an edge, in different shards, one of them tombstoned,
\* and the call has returned both.
C11_Witness ==
  /\ qac.pc = "done"
  /\ qac.result.err = "nil"
  /\ Len(qac.result.children) = 2
  /\ qac.result.children[1].ShardPK # qac.result.children[2].ShardPK
  /\ \E r \in rels : r.ttl # NoTTL
  /\ \E r \in rels : r.ttl = NoTTL

--------------------------------------------------------------------------
\* C12: a committed Update that changes the slug of a studio leaves no
\* constraint record for the old value and a constraint record for the new
\* value held by the studio; an Update whose transaction aborts changes
\* nothing.

ConstraintOf(db, e, value) ==
  Lookup(db, "uniq",
         <<UniqueConstraintPK(ParentRef(e), EntityType(e), "slug", value),
           "CONSTRAINT">>)

C12_UpdateStep(c) ==
  LET e == calls[c].ent
      old == StoredItem(DB, e)
  IN (ReturnsFrom(c, "update_tx") /\ old # NoRec
        /\ old.payload["slug"] # e.payload["slug"]) =>
       IF ret' = "nil"
       THEN /\ ConstraintOf(DBNext, e, old.payload["slug"]) = NoRec
            /\ ConstraintOf(DBNext, e, e.payload["slug"]) # NoRec
            /\ ConstraintOf(DBNext, e, e.payload["slug"]).entity_ref = EntityRef(e)
       ELSE DBUnchanged

C12_UniqueValueMoves == [][\A c \in Callers : C12_UpdateStep(c)]_vars

--------------------------------------------------------------------------
\* C13: a Delete of an entity that is already tombstoned returns nil (or the
\* error of a request the backing store rejected outright) and leaves the
\* stored TTL and version, and everything else, unchanged.

C13_DeleteStep(c) ==
  LET old == StoredItem(DB, calls[c].ent)
  IN ((ReturnsFrom(c, "delete_probe") \/ ReturnsFrom(c, "delete_ttl"))
        /\ old # NoRec /\ old.ttl # NoTTL) =>
       /\ ret' \in {"nil", "error"}
       /\ DBUnchanged

C13_DeleteIdempotent == [][\A c \in Callers : C13_DeleteStep(c)]_vars

--------------------------------------------------------------------------
\* C14: a step of a caller or of the handler keeps every record that has a
\* TTL, with that TTL.

TTLKept(kind) ==
  \A r \in Table(DB, kind) :
     r.ttl # NoTTL =>
       \E q \in Table(DBNext, kind) :
          KeyOf(kind, q) = KeyOf(kind, r) /\ q.ttl = r.ttl

C14_OperationStep ==
  (calls' # calls \/ hnd' # hnd) =>
    \A kind \in {"entity", "rel", "uniq"} : TTLKept(kind)

C14_TombstoneKept == [][C14_OperationStep]_vars

--------------------------------------------------------------------------
\* C15: a record is propagated iff it is a MODIFY whose pre-image has no TTL
\* (absent or zero) and whose post-image has a non-zero TTL; an invocation
\* with any other record acknowledges it and does nothing else: it makes no
\* store call and changes no state.

TTLAdded(record) ==
  /\ record.EventName = "MODIFY"
  /\ record.OldImage = NoRec \/ record.OldImage.ttl = 0
  /\ record.NewImage # NoRec /\ record.NewImage.ttl # 0

C15_BeginStep ==
  hnd.pc = "idle" =>
    /\ hnd'.pc # "idle" =>
          /\ hnd'.record \in stream
          /\ TTLAdded(hnd'.record)
          /\ hnd'.pc = "query"
    /\ \A record \in acked' \ acked :
          /\ ~TTLAdded(record)
          /\ hnd' = hnd
          /\ DBUnchanged
          /\ acked' = acked \cup {record}

C15_StoreCallStep ==
  (~DBUnchanged \/ hnd.pc # "idle") => TTLAdded(hnd.record)

C15_EventFilter == [][C15_BeginStep /\ C15_StoreCallStep]_vars

C15_Ignored ==
  {record \in acked : ~TTLAdded(record)}

C15_Witness ==
  /\ \E record \in C15_Ignored : record.EventName = "INSERT"
  /\ \E record \in C15_Ignored : record.EventName = "REMOVE"
  /\ \E record \in C15_Ignored :
        record.EventName = "MODIFY" /\ record.OldImage.ttl # 0
           /\ record.NewImage.ttl # 0
  /\ \E record \in C15_Ignored :
        record.EventName = "MODIFY" /\ record.OldImage.ttl = 0
  /\ DB = CascadeTree
  /\ hnd.pc = "query" /\ TTLAdded(hnd.record)

--------------------------------------------------------------------------
\* C16: while a propagating record is handled, a failed QueryAllChildren,
\* SetRelationshipTTL or SetUniqueConstraintTTL ends the invocation with an
\* error: the invocation stops and the record is not acknowledged by it.

C16_FailedCall ==
  /\ hnd.pc \in {"query", "rel", "uniq"}
  /\ hnd'.fails = hnd.fails + 1

C16_HandlerStep ==
  C16_FailedCall => hnd'.pc = "idle" /\ acked' = acked

C16_HardFailureSurfaces == [][C16_HandlerStep]_vars

--------------------------------------------------------------------------
\* C17: once every child of an entity is tombstoned (the child's own TTL
\* is set), the orphan probe of a Delete with OrphanProtect on the entity
\* does not return HasChildren.

C17_Children(db, entityRef) ==
  {it \in db.items : it.parent_ref = entityRef}

C17_DeleteStep(c) ==
  LET entityRef == EntityRef(calls[c].ent)
  IN (ReturnsFrom(c, "delete_probe")
        /\ C17_Children(DB, entityRef) # {}
        /\ \A it \in C17_Children(DB, entityRef) : Tombstoned(it, now)) =>
       ret' # "ErrHasChildren"

C17_DeleteAfterChildrenTombstoned ==
  [][\A c \in Callers : C17_DeleteStep(c)]_vars

--------------------------------------------------------------------------
\* C18: a Get whose GetItem succeeded returns NotFound iff the item it read
\* is absent or has a TTL that is not after the time of the check, and the
\* item otherwise; and a Get right after a Delete of the entity that
\* returned nil returns NotFound.

C18_GetStep ==
  (rd.op = "get" /\ rd'.op = "-") =>
    /\ ret' = "ErrNotFound" <=>
          (rd.item = NoRec \/ (rd.item.ttl # NoTTL /\ rd.item.ttl <= now))
    /\ rd.afterDelete => ret' = "ErrNotFound"

C18_GetNotFound == [][C18_GetStep]_vars

--------------------------------------------------------------------------
\* C19: whatever filter, names and values the caller supplies, no item
\* returned by Query is tombstoned at the time of the call.

C19_NoTombstoneReturned ==
  rd.op = "query" => \A item \in rd.result : ~Tombstoned(item, rd.t)

--------------------------------------------------------------------------
\* C20: an item appears with version 1 and equal creation and update
\* timestamps; every later change of an item raises its version by exactly
\* one; a committed Update and the first tombstone write raise it by one; a
\* failed Create, a failed Update and any call on an item that already has
\* a TTL leave the item as it is.

C20_ItemStep(key) ==
  LET old == Lookup(DB, "entity", key)
      new == Lookup(DBNext, "entity", key)
  IN /\ (old = NoRec /\ new # NoRec) =>
          new.version = 1 /\ new.created_at = new.updated_at
     /\ old # NoRec =>
          /\ new # NoRec
          /\ new # old => new.version = old.version + 1
          /\ old.ttl # NoTTL => new = old

C20_CallStep(c) ==
  LET e == calls[c].ent
      old == StoredItem(DB, e)
      new == StoredItem(DBNext, e)
  IN /\ ReturnsFrom(c, "create_tx") =>
          IF ret' = "nil" THEN old = NoRec /\ new.version = 1 ELSE DBUnchanged
     /\ ReturnsFrom(c, "update_get") => DBUnchanged
     /\ (ReturnsFrom(c, "update_simple") \/ ReturnsFrom(c, "update_tx")) =>
          IF ret' = "nil"
          THEN old # NoRec /\ new.version = old.version + 1
          ELSE DBUnchanged
     /\ (ReturnsFrom(c, "delete_ttl") /\ ret' = "nil") =>
          /\ old # NoRec
          /\ IF old.ttl = NoTTL
             THEN new.version = old.version + 1 /\ new.ttl = now
             ELSE DBUnchanged

C20_VersionCounts ==
  [][/\ \A key \in Keys(DB, "entity") \cup Keys(DBNext, "entity") :
          C20_ItemStep(key)
     /\ \A c \in Callers : C20_CallStep(c)]_vars

C20_Witness ==
  /\ ret = "nil"
  /\ \E item \in items :
        item.version = 3 /\ item.ttl # NoTTL /\ item.updated_at > item.created_at

--------------------------------------------------------------------------
\* C21: a Create of an entity whose item is present in the entity table
\* (active or tombstoned) that the store answers returns AlreadyExists, and
\* leaves the three tables unchanged.

C21_CreateStep(c) ==
  (ReturnsFrom(c, "create_tx") /\ StoredItem(DB, calls[c].ent) # NoRec) =>
     /\ DBUnchanged
     /\ ret' # "error" => ret' = "ErrAlreadyExists"

C21_CreateExisting == [][\A c \in Callers : C21_CreateStep(c)]_vars

--------------------------------------------------------------------------
\* C23: UniqueConstraintPK gives one key per tuple, and two tuples that
\* differ in a component get different keys.

C23_KeysDistinguish ==
  rd.op = "key" =>
    /\ rd.pk1 = rd.pk1again
    /\ rd.t1 # rd.t2 => rd.pk1 # rd.pk2

--------------------------------------------------------------------------
\* C22: a Create of an entity with unique fields and a parent, whose parent
\* is active and whose item is absent, returns DuplicateValue iff the ledger
\* holds a record of one of its (parent, type, field, value) tuples, and
\* commits otherwise; the same value under another parent does not collide.

C22_TupleRecords(db, e) ==
  {u \in db.uniq :
     /\ u.parent_ref = ParentRef(e)
     /\ u.entity_type = EntityType(e)
     /\ \E f \in DOMAIN UniqueFields(e) :
          u.field_name = f /\ u.field_value = UniqueFields(e)[f]}

C22_CreateStep(c) ==
  LET e == calls[c].ent
      parent == ParentItem(DB, e)
  IN (/\ ReturnsFrom(c, "create_tx")
      /\ IsUniqueFielder(e) /\ ParentRef(e) # ""
      /\ parent # NoRec /\ parent.ttl = NoTTL
      /\ StoredItem(DB, e) = NoRec
      /\ ret' # "error") =>
       IF C22_TupleRecords(DB, e) # {}
       THEN ret' = "ErrDuplicateValue"
       ELSE ret' = "nil"

C22_DuplicateIffReserved == [][\A c \in Callers : C22_CreateStep(c)]_vars

--------------------------------------------------------------------------
\* C24: with a shard count of 1 or less (0 and negative counts included)
\* RelationshipPK returns the parent reference followed by "#00", whatever
\* the child reference.

C24_SingleShardKey ==
  (rd.op = "shard" /\ rd.numShards <= 1) => rd.pk = rd.parentRef \o "#00"

C24_Witness ==
  /\ rd.op = "shard"
  /\ rd.numShards = -2
  /\ rd.parentRef = ""
  /\ rd.childRef = "studio#1"
  /\ rd.pk = "#00"

--------------------------------------------------------------------------
\* C25: the Store's shard count is within 1..256: a configured count below
\* 1 becomes 1, one above 256 becomes 256, one in range is kept; an empty
\* table name becomes the default and a non-empty one is kept.

C25_Clamped(n) == IF n < 1 THEN 1 ELSE IF n > 256 THEN 256 ELSE n

C25_ConfigValidated ==
  rd.op = "new" =>
    /\ rd.config.NumShards \in 1..256
    /\ rd.config.NumShards = C25_Clamped(rd.input.NumShards)
    /\ rd.config.RelationshipTable =
         (IF rd.input.RelationshipTable = "" THEN "trellis_relationships"
          ELSE rd.input.RelationshipTable)
    /\ rd.config.UniqueTable =
         (IF rd.input.UniqueTable = "" THEN "trellis_unique_constraints"
          ELSE rd.input.UniqueTable)

C25_Witness ==
  /\ rd.op = "new"
  /\ rd.input.NumShards = 500 /\ rd.config.NumShards = 256
  /\ rd.input.RelationshipTable = ""
  /\ rd.config.UniqueTable = "custom_unique"

--------------------------------------------------------------------------
\* C26: a unique-constraint record is deleted, replaced or given a TTL only
\* on behalf of its holder: no step of a caller or of the cascade handler
\* removes or changes a record whose entity_ref names an active entity other
\* than the entity the step acts for.
C26_Holder(db, u) ==
  {i \in db.items : i.entity_ref = u.entity_ref /\ i.ttl = NoTTL}

C26_ActsFor(entityRef) ==
  \/ \E c \in Callers : /\ calls'[c] # calls[c]
                        /\ calls[c].pc # "idle"
                        /\ EntityRef(calls[c].ent) = entityRef
  \/ /\ hnd' # hnd
     /\ hnd.pc # "idle"
     /\ hnd.record.NewImage.entity_ref = entityRef

C26_Step ==
  \A u \in uniq :
     (/\ u \notin uniq'
      /\ (calls' # calls \/ hnd' # hnd)
      /\ C26_Holder(DB, u) # {}) => C26_ActsFor(u.entity_ref)

C26_OnlyHolderReleases == [][C26_Step]_vars

--------------------------------------------------------------------------
\* C27: the constraint records held by a studio are exactly the keys in its
\* _unique_pks attribute, and those are exactly the keys of its current
\* unique values: no reservation of an earlier value remains and none is
\* missing.
C27_CurrentKeys(it) ==
  {UniqueConstraintPK(it.parent_ref, "studio", "slug", it.payload["slug"])}

C27_LedgerMatchesEntity ==
  \A it \in items :
     it.table = TableName(Studio("1", "1", "")) =>
        /\ {u.pk : u \in HeldBy(DB, it.entity_ref)} = it.unique_pks
        /\ it.unique_pks = C27_CurrentKeys(it)

--------------------------------------------------------------------------
\* C28: in the transaction of Update's unique-aware path every failed
\* condition, the collision of a new reservation as well as the version/TTL
\* guard, is reported as ErrDuplicateValue and nothing is written; a
\* cancellation without a failed condition and any other error are returned
\* as they are, and ErrDuplicateValue is returned for nothing else.
C28_Collides(c) ==
  ConstraintOf(DB, calls[c].ent, calls[c].ent.payload["slug"]) # NoRec

C28_GuardFails(c) ==
  LET old == StoredItem(DB, calls[c].ent)
  IN old = NoRec \/ old.version # calls[c].exp \/ old.ttl # NoTTL

C28_UpdateStep(c) ==
  (ReturnsFrom(c, "update_tx")
     /\ ChangedFields(calls[c].ent, calls[c].oldUniques) # {}) =>
       /\ (C28_Collides(c) \/ C28_GuardFails(c)) =>
             ret' \in {"ErrDuplicateValue", "error", "TransactionCanceled"}
       /\ ret' = "ErrDuplicateValue" => (C28_Collides(c) \/ C28_GuardFails(c))
       /\ ret' \in {"nil", "ErrDuplicateValue", "error", "TransactionCanceled"}
       /\ ret' # "nil" => DBUnchanged

--------------------------------------------------------------------------
\* C29: the error of a cancelled Create is that of the first transaction
\* item whose condition failed: ErrParentNotFound for the parent check,
\* ErrDuplicateValue for a constraint reservation (placed before the entity
\* put), ErrAlreadyExists for the entity put; a cancellation without a
\* failed condition and any other error are returned as they are.
C29_ParentFails(c) ==
  /\ IsParentChecker(calls[c].ent)
  /\ ~ParentExistsCondition(ParentItem(DB, calls[c].ent), calls[c].t)

C29_ReservationFails(c) ==
  /\ IsUniqueFielder(calls[c].ent)
  /\ ConstraintOf(DB, calls[c].ent, calls[c].ent.payload["slug"]) # NoRec

C29_EntityPutFails(c) == StoredItem(DB, calls[c].ent) # NoRec

C29_Expected(c) ==
  IF C29_ParentFails(c) THEN "ErrParentNotFound"
  ELSE IF C29_ReservationFails(c) THEN "ErrDuplicateValue"
  ELSE IF C29_EntityPutFails(c) THEN "ErrAlreadyExists"
  ELSE "nil"

C29_CreateStep(c) ==
  ReturnsFrom(c, "create_tx") =>
     /\ ret' \in {C29_Expected(c), "error", "TransactionCanceled"}
     /\ ret' # "nil" => DBUnchanged

--------------------------------------------------------------------------
\* C30: a store call of the handler that the store answers, made for the
\* propagating event of entity E with TTL t, writes one record only: the
\* item of a direct child of E, E's own edge or a record under a key of E's
\* _unique_pks. A record without TTL gets t (an item also version + 1), a
\* record with a TTL is kept, every other record of the three tables is
\* left alone, and a call that fails writes nothing. When a handling ends
\* and no call has failed, every child the query returned, E's edge and
\* every held constraint record carry a TTL.
C30_Answered == hnd' # hnd /\ hnd'.fails = hnd.fails

C30_ChildStep ==
  LET img == hnd.record.NewImage
      child == hnd.children[hnd.i]
      it == Lookup(DB, "entity", <<child.TableName, child.Key>>)
  IN (hnd.pc = "children" /\ C30_Answered) =>
       /\ it # NoRec => it.parent_ref = img.entity_ref
       /\ items' = IF it # NoRec /\ it.ttl = NoTTL
                   THEN (items \ {it}) \cup
                        {[it EXCEPT !.ttl = img.ttl, !.version = it.version + 1]}
                   ELSE items
       /\ rels' = rels /\ uniq' = uniq

C30_RelStep ==
  LET img == hnd.record.NewImage
  IN (hnd.pc = "rel" /\ C30_Answered) =>
       /\ img.parent_ref # ""
       /\ rels' = {IF r \in EdgesOf(DB, img.entity_ref, img.parent_ref)
                      /\ r.ttl = NoTTL
                   THEN [r EXCEPT !.ttl = img.ttl] ELSE r : r \in rels}
       /\ items' = items /\ uniq' = uniq

C30_UniqStep ==
  LET img == hnd.record.NewImage
      pk == uniquePKs(hnd.record)[hnd.i]
  IN (hnd.pc = "uniq" /\ C30_Answered) =>
       /\ pk \in img.unique_pks
       /\ uniq' = {IF u.pk = pk /\ u.ttl = NoTTL
                   THEN [u EXCEPT !.ttl = img.ttl] ELSE u : u \in uniq}
       /\ items' = items /\ rels' = rels

C30_NoWriteStep ==
  (hnd' # hnd /\ (hnd.pc \in {"idle", "query"} \/ hnd'.fails # hnd.fails)) =>
     DBUnchanged

C30_DoneStep ==
  LET img == hnd.record.NewImage
  IN (hnd.pc \in {"children", "rel", "uniq"} /\ hnd'.pc = "idle"
        /\ hnd'.fails = 0) =>
       /\ \A i \in 1..Len(hnd.children) :
             Lookup(DBNext, "entity", <<hnd.children[i].TableName,
                                        hnd.children[i].Key>>).ttl # NoTTL
       /\ \A r \in EdgesOf(DBNext, img.entity_ref, img.parent_ref) :
             r.ttl # NoTTL
       /\ \A u \in uniq' : u.pk \in img.unique_pks => u.ttl # NoTTL

C30_HandlerWrites ==
  [][C30_ChildStep /\ C30_RelStep /\ C30_UniqStep /\ C30_NoWriteStep
       /\ C30_DoneStep]_vars

\* The organization's event has been handled without a failed call: both
\* studios carry its TTL at version 2 and the title below studio 1, a
\* grandchild, has none.
C30_Witness ==
  /\ hnd.pc = "idle" /\ hnd.fails = 0
  /\ \E record \in acked :
        /\ record.NewImage.entity_ref = "organization#1"
        /\ \A it \in items :
              /\ it.parent_ref = "organization#1" =>
                    it.ttl = record.NewImage.ttl /\ it.version = 2
              /\ it.parent_ref = "studio#1" => it.ttl = NoTTL

--------------------------------------------------------------------------
\* C31: a SetTTLByKey that fails for one child does not end the invocation:
\* the handler keeps its record, writes nothing for that child and goes on
\* to the next child, or after the last child to the entity's own edge, or
\* to its constraint records, and only with nothing left does it return.
C31_ChildFailed == hnd.pc = "children" /\ hnd'.fails = hnd.fails + 1

C31_HandlerStep ==
  LET img == hnd.record.NewImage
  IN C31_ChildFailed =>
       /\ DBUnchanged
       /\ IF hnd.i < Len(hnd.children)
          THEN /\ hnd'.pc = "children" /\ hnd'.i = hnd.i + 1
               /\ hnd'.record = hnd.record /\ hnd'.children = hnd.children
          ELSE IF img.parent_ref # ""
          THEN hnd'.pc = "rel" /\ hnd'.record = hnd.record
          ELSE IF img.unique_pks # {}
          THEN hnd'.pc = "uniq" /\ hnd'.i = 1 /\ hnd'.record = hnd.record
          ELSE hnd'.pc = "idle" /\ hnd.record \in acked'

C31_ChildFailureContinues == [][C31_HandlerStep]_vars

\* The call for the first studio failed and the handler of the
\* organization's event is at the second studio.
C31_Witness ==
  /\ hnd.pc = "children" /\ hnd.i = 2 /\ hnd.fails = 1
  /\ hnd.record.NewImage.entity_ref = "organization#1"
  /\ \E it \in items : it.entity_ref = "studio#1" /\ it.ttl = NoTTL

--------------------------------------------------------------------------
\* C32: HandleCascadeDelete runs processRecord on the records of the event
\* in their order; it returns the error of the first record whose handling
\* returns one, with no later record processed, and it returns nil only
\* when every record of the event was processed and none returned an error.
C32_InOrder ==
  rd.op = "batch" =>
     /\ Len(rd.processed) \in {rd.k - 1, rd.k}
     /\ Len(rd.processed) <= Len(rd.Records)
     /\ \A i \in 1..Len(rd.processed) : rd.processed[i] = i
     /\ rd.result = "error" =>
           /\ rd.errors = {Len(rd.processed)}
           /\ ~rd.running /\ hnd.pc = "idle"
     /\ rd.result = "nil" =>
           /\ rd.errors = {}
           /\ Len(rd.processed) = Len(rd.Records)
           /\ \A i \in 1..Len(rd.Records) : rd.Records[i] \in acked
     /\ rd.result = "-" => rd.errors = {}

C32_Step ==
  (rd.op = "batch" /\ rd.result # "-") => UNCHANGED vars

C32_BatchInOrder == []C32_InOrder /\ [][C32_Step]_vars

\* The first record was handled to its end, the query for the second failed
\* and the invocation returned the error.
C32_Witness ==
  /\ rd.op = "batch" /\ rd.result = "error"
  /\ Len(rd.Records) = 2 /\ rd.processed = <<1, 2>>
  /\ Propagates(rd.Records[1]) /\ rd.Records[1] \in acked
  /\ rd.Records[2] \notin acked

--------------------------------------------------------------------------
\* C33: the SetTTL of a Delete changes the ttl and the version of the target
\* item and nothing else; no step of a Create, Update or Delete call
\* creates, removes or changes an edge or a constraint record so that a
\* record with a TTL appears, and an edge gets a TTL only in the handler's
\* SetRelationshipTTL call for the tombstone event of the edge's child.
C33_DeleteStep(c) ==
  LET old == StoredItem(DB, calls[c].ent)
  IN ReturnsFrom(c, "delete_ttl") =>
       /\ rels' = rels /\ uniq' = uniq
       /\ \/ items' = items
          \/ /\ old # NoRec /\ old.ttl = NoTTL /\ ret' = "nil"
             /\ items' = (items \ {old}) \cup
                         {[old EXCEPT !.ttl = now, !.version = old.version + 1]}

C33_CallerStep ==
  calls' # calls =>
     /\ \A r \in rels' : r.ttl # NoTTL => r \in rels
     /\ \A u \in uniq' : u.ttl # NoTTL => u \in uniq

C33_EdgeStep ==
  \A r \in rels' :
     (r.ttl # NoTTL /\ r \notin rels) =>
        /\ hnd.pc = "rel" /\ hnd' # hnd
        /\ Propagates(hnd.record)
        /\ r.child_ref = hnd.record.NewImage.entity_ref
        /\ r.ttl = hnd.record.NewImage.ttl

C33_TTLOnlyByCascade ==
  [][(\A c \in Callers : C33_DeleteStep(c)) /\ C33_CallerStep /\ C33_EdgeStep]_vars

\* Studio 1 was deleted while the organization is active, and the handler
\* has set the TTL of the studio's edge.
C33_Witness ==
  /\ \E it \in items : it.entity_ref = "studio#1" /\ it.ttl # NoTTL
  /\ \E it \in items : it.entity_ref = "organization#1" /\ it.ttl = NoTTL
  /\ \E r \in rels : r.child_ref = "studio#1" /\ r.ttl # NoTTL

--------------------------------------------------------------------------
\* C34: an item that has a TTL is never changed again by a caller: its
\* attributes, its version and its _unique_pks stay as they are, and so
\* does the set of constraint records held by it.
C34_Step ==
  \A it \in items :
     it.ttl # NoTTL =>
        /\ it \in items'
        /\ {u.pk : u \in HeldBy(DBNext, it.entity_ref)}
              = {u.pk : u \in HeldBy(DB, it.entity_ref)}

C34_TombstoneFrozen == [][C34_Step]_vars

--------------------------------------------------------------------------
\* C35: an item with a parent reference has exactly one edge, keyed by the
\* relationship key of its parent and itself and by its own reference, and
\* the edge carries the item's table and key; every edge belongs to such an
\* item, and an item without parent reference has none.
C35_EdgesOfChild(ref) == {r \in rels : r.child_ref = ref}

C35_OneEdgePerChild ==
  /\ \A it \in items :
        IF it.parent_ref = ""
        THEN C35_EdgesOfChild(it.entity_ref) = {}
        ELSE /\ Cardinality(C35_EdgesOfChild(it.entity_ref)) = 1
             /\ \A r \in C35_EdgesOfChild(it.entity_ref) :
                   /\ r.pk = RelationshipPK(it.parent_ref, it.entity_ref, NumShards)
                   /\ r.parent_ref = it.parent_ref
                   /\ r.child_table = it.table
                   /\ r.child_key = it.id
  /\ \A r \in rels : \E it \in items :
        it.entity_ref = r.child_ref /\ it.parent_ref # ""

\* Studio 2 was created and studio 1 deleted, and the handler has marked
\* the edge of studio 1.
C35_Witness ==
  /\ \E it \in items : it.entity_ref = "studio#2"
  /\ \E r \in rels : r.child_ref = "studio#1" /\ r.ttl # NoTTL
  /\ \E r \in rels : r.child_ref = "studio#2" /\ r.ttl = NoTTL

--------------------------------------------------------------------------
\* C36: for a shard count between 1 and 256 the partition key Create writes
\* an edge under is one of the keys the probes query (the parent reference,
\* "#" and two lowercase hex digits of a shard number below the count), and
\* it is the key SetRelationshipTTL addresses.
C36_EdgeKeyScanned ==
  rd.op = "scan" =>
     /\ rd.createPK \in rd.scanned
     /\ rd.createPK = rd.ttlPK
     /\ Cardinality(rd.scanned) = rd.numShards
     /\ \A k \in rd.scanned :
           /\ Len(k) = Len(rd.parentRef) + 3
           /\ SubSeq(k, 1, Len(rd.parentRef) + 1) = rd.parentRef \o "#"

\* Among 16 shards the edge of studio 1 is not in the first partition.
C36_Witness ==
  /\ rd.op = "scan" /\ rd.numShards = 16
  /\ rd.parentRef = "organization#1" /\ rd.childRef = "studio#1"
  /\ rd.createPK # "organization#1#00"

--------------------------------------------------------------------------
\* C37: a simple-path Update commits exactly when the stored version equals
\* the expected version and the item has no TTL (an injected store failure
\* aside); a commit sets every supplied non-managed attribute, refreshes
\* updated_at and increments the version by one, and leaves id, entity_ref,
\* parent_ref, created_at, ttl and _unique_pks as stored even when the
\* caller supplied them; a failed guard, a tombstone included, returns
\* ErrConcurrentModification and writes nothing.
C37_Guard(c) ==
  LET old == StoredItem(DB, calls[c].ent)
  IN old # NoRec /\ old.version = calls[c].exp /\ old.ttl = NoTTL

C37_Committed(c) ==
  LET old == StoredItem(DB, calls[c].ent)
      new == StoredItem(DBNext, calls[c].ent)
      item == rd'.item
  IN /\ new # NoRec
     /\ \A f \in DOMAIN item \ ManagedFields : new.payload[f] = item[f]
     /\ \A f \in DOMAIN old.payload \ DOMAIN item :
           new.payload[f] = old.payload[f]
     /\ DOMAIN new.payload = DOMAIN old.payload \cup (DOMAIN item \ ManagedFields)
     /\ new.updated_at = now
     /\ new.version = old.version + 1
     /\ new.id = old.id
     /\ new.entity_ref = old.entity_ref
     /\ new.parent_ref = old.parent_ref
     /\ new.created_at = old.created_at
     /\ new.ttl = old.ttl
     /\ new.unique_pks = old.unique_pks
     /\ items' \ {new} = items \ {old}
     /\ UNCHANGED <<rels, uniq>>

C37_Step(c) ==
  ReturnsFrom(c, "update_simple") =>
    /\ C37_Guard(c) => ret' \in {"nil", "error"}
    /\ ~C37_Guard(c) => ret' \in {"ErrConcurrentModification", "error"}
    /\ ret' = "nil" => C37_Committed(c)
    /\ ret' # "nil" => DBUnchanged

C37_SimpleUpdate == [][\A c \in Callers : C37_Step(c)]_vars

\* The stored organization after an update whose item named every managed
\* attribute: version 2, written at time 2, everything else as created.
C37_Witness ==
  /\ rd = [op |-> "update",
           item |-> [f \in {"name"} \cup DOMAIN UpdateSimpleManaged |->
                       IF f = "name" THEN "z" ELSE UpdateSimpleManaged[f]]]
  /\ ret = "nil"
  /\ \E it \in items :
        /\ it.entity_ref = "organization#1"
        /\ it.version = 2 /\ it.updated_at = 2 /\ it.created_at = 1
        /\ it.ttl = NoTTL /\ it.payload = [name |-> "z"]

--------------------------------------------------------------------------
\* C38: Delete probes HasActiveChildren exactly when OrphanProtect is set
\* and Cascade is not. With any other options the call goes straight to the
\* tombstone write, which marks an active entity even when it has active
\* children; a probe that fails or finds a child ends the call with
\* nothing written.
C38_Probes(opts) == opts.OrphanProtect /\ ~opts.Cascade

C38_BeginStep(c) ==
  (calls[c].pc = "idle" /\ calls'[c].pc \in {"delete_probe", "delete_ttl"}) =>
    (calls'[c].pc = "delete_probe" <=> C38_Probes(calls'[c].opts))

C38_ProbeStep(c) ==
  (calls[c].pc = "delete_probe" /\ calls'[c] # calls[c]) =>
    /\ C38_Probes(calls[c].opts)
    /\ DBUnchanged
    /\ \/ ReturnsFrom(c, "delete_probe") /\ ret' \in {"error", "ErrHasChildren"}
       \/ calls'[c].pc = "delete_ttl"

C38_TombstoneStep(c) ==
  LET e == calls[c].ent
      old == StoredItem(DB, e)
      new == StoredItem(DBNext, e)
  IN (/\ ReturnsFrom(c, "delete_ttl")
      /\ ~C38_Probes(calls[c].opts)
      /\ old # NoRec /\ old.ttl = NoTTL) =>
       /\ ret' \in {"nil", "error"}
       /\ ret' = "nil" => new.ttl = now
       /\ ret' = "error" => DBUnchanged

C38_ProbeOnlyUnderOrphanProtect ==
  [][\A c \in Callers :
       C38_BeginStep(c) /\ C38_ProbeStep(c) /\ C38_TombstoneStep(c)]_vars

\* The organization has just been tombstoned while a studio under it is
\* active.
C38_Witness ==
  /\ ret = "nil"
  /\ calls[ReclaimCaller].pc = "idle"
  /\ \E o \in items :
        /\ o.entity_ref = "organization#1" /\ o.ttl = now
        /\ ActiveChildren(DB, "organization#1", now) # {}

--------------------------------------------------------------------------
\* C39: uniqueness is handled only inside a parent scope. For an entity with
\* unique fields and an empty parent reference, Create writes no constraint
\* record and no edge, and Update is the simple update: it writes no
\* constraint record, and a failed guard, a tombstone included, returns
\* ErrConcurrentModification. For an entity inside a parent scope, an Update
\* whose unique values all equal the values its re-read returned writes no
\* constraint record and ends like the simple update: it commits exactly
\* under the guard, changing payload, updated_at and version alone, and a
\* failed guard returns ErrConcurrentModification with nothing written; when
\* the re-read finds the entity absent or tombstoned, Update returns
\* ErrNotFound and writes nothing.
C39_Rootless(e) == IsUniqueFielder(e) /\ ParentRef(e) = ""

C39_Guard(c) ==
  LET old == StoredItem(DB, calls[c].ent)
  IN old # NoRec /\ old.version = calls[c].exp /\ old.ttl = NoTTL

\* The end of a simple update of caller c.
C39_LikeSimple(c) ==
  LET old == StoredItem(DB, calls[c].ent)
      new == StoredItem(DBNext, calls[c].ent)
  IN /\ uniq' = uniq /\ rels' = rels
     /\ C39_Guard(c) =>
          /\ ret' = "nil"
          /\ new = [old EXCEPT !.payload = calls[c].ent.payload,
                               !.updated_at = now,
                               !.version = @ + 1]
          /\ items' \ {new} = items \ {old}
     /\ ~C39_Guard(c) => ret' = "ErrConcurrentModification" /\ DBUnchanged

C39_CreateStep(c) ==
  (ReturnsFrom(c, "create_tx") /\ C39_Rootless(calls[c].ent)) =>
    /\ uniq' = uniq /\ rels' = rels
    /\ ret' = "nil" =>
         StoredItem(DBNext, calls[c].ent).unique_pks = {}

C39_RootlessUpdateStep(c) ==
  (/\ calls[c].pc \in {"update_simple", "update_get", "update_tx"}
   /\ calls'[c] # calls[c]
   /\ C39_Rootless(calls[c].ent)) =>
    /\ ReturnsFrom(c, "update_simple")
    /\ C39_LikeSimple(c)

C39_ReadStep(c) ==
  LET old == StoredItem(DB, calls[c].ent)
  IN (ReturnsFrom(c, "update_get") /\ ~C39_Rootless(calls[c].ent)) =>
       /\ old = NoRec \/ Tombstoned(old, now)
       /\ ret' = "ErrNotFound"
       /\ DBUnchanged

C39_UnchangedStep(c) ==
  (/\ ReturnsFrom(c, "update_tx")
   /\ calls[c].oldUniques = UniqueFields(calls[c].ent)) =>
    C39_LikeSimple(c)

C39_ScopedUniqueness ==
  [][\A c \in Callers :
       /\ C39_CreateStep(c)
       /\ C39_RootlessUpdateStep(c)
       /\ C39_ReadStep(c)
       /\ C39_UnchangedStep(c)]_vars

\* The claim as stated: every end of an Update of an entity inside a parent
\* scope whose unique values equal the stored ones is the end of a simple
\* update.
C39_StoredEqual(c) ==
  LET old == StoredItem(DB, calls[c].ent)
  IN /\ ~C39_Rootless(calls[c].ent)
     /\ old # NoRec
     /\ \A f \in DOMAIN UniqueFields(calls[c].ent) :
           old.payload[f] = UniqueFields(calls[c].ent)[f]

C39_AsStated ==
  [][\A c \in Callers :
       /\ C39_CreateStep(c)
       /\ C39_RootlessUpdateStep(c)
       /\ ((ReturnsFrom(c, "update_get") \/ ReturnsFrom(c, "update_tx"))
             /\ C39_StoredEqual(c)) => C39_LikeSimple(c)]_vars

\* Two labels with the same slug are stored, no constraint record but the
\* studio's exists, and an Update of the studio that kept its slug has
\* just committed.
C39_Witness ==
  /\ ret = "nil"
  /\ Cardinality({it \in items : it.table = "labels" /\ it.ttl = NoTTL
                                   /\ it.payload["slug"] = "a"}) = 2
  /\ \A u \in uniq : u.entity_ref = "studio#1"
  /\ \E it \in items :
        /\ it.entity_ref = "studio#1" /\ it.version = 2
        /\ it.payload["slug"] = "a"

--------------------------------------------------------------------------
\* C40: every HasActiveChildren and QueryAllChildren call over several
\* shards terminates when every query returns. A task that is about to send
\* on errs finds room in the buffer; found and errs are closed once each,
\* after every task has finished, and stay closed; and every call that has
\* begun reaches the state in which the caller has returned, every task has
\* finished and the channels are closed.
C40_HacTasksDone == \A s \in DOMAIN hac.task : hac.task[s] = "done"
C40_QacTasksDone == \A s \in DOMAIN qac.task : qac.task[s] = "done"

C40_SendHasRoom ==
  /\ (\E s \in DOMAIN hac.task : hac.task[s] \notin {"start", "query", "done"})
       => Len(hac.errs.q) < ErrsCapacity(HacShards)
  /\ (\E s \in DOMAIN qac.task : qac.task[s] = "send")
       => Len(qac.errs.q) < ErrsCapacity(HacShards)

C40_CloseStep ==
  /\ hac'.found.closed # hac.found.closed =>
       ~hac.found.closed /\ ~hac.errs.closed /\ C40_HacTasksDone
  /\ hac'.errs.closed # hac.errs.closed =>
       ~hac.errs.closed /\ hac.found.closed /\ C40_HacTasksDone
  /\ qac'.errs.closed # qac.errs.closed =>
       ~qac.errs.closed /\ C40_QacTasksDone
  /\ (hac.errs.closed \/ qac.errs.closed) =>
       hac'.task = hac.task /\ qac'.task = qac.task

C40_HacFinished ==
  /\ hac.pc = "done" /\ C40_HacTasksDone
  /\ hac.found.closed /\ hac.errs.closed

C40_QacFinished ==
  qac.pc = "done" /\ C40_QacTasksDone /\ qac.errs.closed

C40_FanOutTerminates ==
  /\ []C40_SendHasRoom
  /\ [][C40_CloseStep]_vars
  /\ (hac.pc # "idle") ~> C40_HacFinished
  /\ (qac.pc # "idle") ~> C40_QacFinished

\* The caller has returned on the first error while the error of another
\* shard is still in the buffer of the closed channel.
C40_Witness ==
  /\ C40_HacFinished
  /\ hac.result.err = "error"
  /\ hac.errs.q # <<>>

====
